---- MODULE Spec2Model ----
(***************************************************************************)
(* A model of the caching and task-execution core of pypsa-app:            *)
(*   - NetworkCache        (services/network.py)  : SpecCache              *)
(*   - InMemoryTaskQueue   (task_queue.py) running the task envelope       *)
(*     _execute_task       (tasks.py)             : SpecTasks              *)
(*     and a task body that reports progress      : SpecProgress           *)
(*   - scan_networks / _process_network_file (services/network.py)        *)
(*                                                : SpecScan               *)
(*     with failures after a record was changed   : SpecScanFaults         *)
(*   - the cache decorator around a computation that can raise             *)
(*                                                : SpecResultFaults       *)
(*     over a record older than the SVG column    : SpecLegacy             *)
(*   - the cache decorator and cache_service (cache.py) : SpecResult       *)
(*   - NetworkCache called from several threads   : SpecThreads            *)
(*   - the task backend the routes use (celery_app.py, tasks.py,           *)
(*     api/utils/task_utils.py)                   : SpecBackend            *)
(*   - the statistics and plot routes with their request schemas           *)
(*     (api/routes, schemas, utils/allowlists.py) : SpecApi                *)
(*   - the clear operations of CacheService over the keys the cache        *)
(*     wrapper writes (cache.py, tasks.py)        : SpecAdmin              *)
(*   - the locks of NetworkCache and of the local task table as the        *)
(*     threads of the process take them           : SpecLocks              *)
(*   - NetworkService constructed for a request and for the reconciler     *)
(*     over a file that changes                   : SpecLoads              *)
(*   - get_network_or_404 and get_networks_or_404 (api/deps.py) for the    *)
(*     requesters of a table of owned networks    : SpecAccess             *)
(* Each specification moves only the variables of its component.           *)
(***************************************************************************)
EXTENDS Integers, Sequences, FiniteSets, TLC

VARIABLES
    \* ---- NetworkCache -------------------------------------------------
    cache,        \* self.cache: the OrderedDict, oldest first, of [key, value, ts]
    hits,         \* self.hits
    misses,       \* self.misses
    now,          \* time.time()
    ret,          \* the last cache call: its name, the value a get returned,
                  \* the key a put evicted (the "evicted_network" it logs),
                  \* whether a get deleted an expired entry
    recent        \* history: the keys in the cache, least recently accessed first,
                  \* an access being a get that hit or a put

cacheVars == <<cache, hits, misses, now, ret, recent>>

VARIABLES
    \* ---- InMemoryTaskQueue ---------------------------------------------
    tasks,        \* _tasks: task id -> record, for the ids that have a record
    nextTid,      \* number of ids handed out so far (uuid4 never repeats)
    queue,        \* the run() closures waiting in _pool (one worker thread)
    wpc,          \* where the worker thread is inside run()
    wtid,         \* the task id of the closure the worker is running (0: none)
    wres,         \* the envelope _execute_task returned to run()
    job,          \* task id -> the kwargs its closure captured
    clock,        \* datetime.now(timezone.utc), in ticks of 12 hours
    resp,         \* what the last get_task_status_response returned
    threw,        \* history: ids whose computation raised
    stored,       \* history: ids whose run() stored its result in the record
    finished,     \* history: ids whose run() has ended
    escaped       \* history: ids whose run() ended by raising

taskVars == <<tasks, nextTid, queue, wpc, wtid, wres, job, clock, resp,
              threw, stored, finished, escaped>>

VARIABLES
    \* ---- scan_networks -------------------------------------------------
    disk,         \* the *.nc files under networks_path: path -> content or NoFile
    dirExists,    \* networks_path.exists()
    forUpdate,    \* whether the database honours SELECT ... FOR UPDATE
                  \* (PostgreSQL does, SQLite ignores it)
    db,           \* table networks: the committed rows
    nextRow,      \* number of row ids handed out so far (uuid4 never repeats)
    locks,        \* per pass: ids of the rows its open transaction has locked
    spc,          \* per pass: where scan_networks is
    files,        \* per pass: list(networks_path.rglob("*.nc"))
    idx,          \* per pass: position in files
    existing,     \* per pass: the row object the lookup loaded, or NoRow
    session,      \* per pass: the changed row objects its Session has not yet
                  \* committed, each with the attributes assigned
    added,        \* per pass: added
    updated,      \* per pass: updated
    errors,       \* per pass: errors
    status,       \* per pass: "status" of the dict scan_networks returned
    writes,       \* number of changes made to the files so far
    scans,        \* number of passes started so far
    raced,        \* history, per pass: paths whose insert hit the unique constraint
    raised,       \* history, per pass: paths whose processing raised
    lastFull,     \* history: value of writes when a pass last ran from start to
                  \* end alone and with no file changing meanwhile (-1: never)
    lastChange,   \* history: the path, if the last change to the files replaced
                  \* the bytes of a file whose row held its hash by other
                  \* loadable bytes
    mode,         \* history, per pass: "rerun" if it started right after such a
                  \* pass with the files unchanged, "change" if right after such
                  \* a pass and one such change, "plain" if it started otherwise;
                  \* "mixed" once another pass or a file change overlaps it
    prevRow       \* history, per pass in mode "change": the changed file's row
                  \* as it was when the pass started

scanVars == <<disk, dirExists, forUpdate, db, nextRow, locks, spc, files, idx,
              existing, session, added, updated, errors, status, writes, scans,
              raced, raised, lastFull, lastChange, mode, prevRow>>

VARIABLES
    \* ---- cache.py: the cache decorator and cache_service -----------------
    boot,         \* history: what the import of cache.py found: "nolib" (redis
                  \* cannot be imported), "nourl" (settings.redis_url empty),
                  \* "badurl" (redis.from_url raises), "down" (server
                  \* unreachable) or "up"
    svc,          \* cache_service: "redis" (CacheService) or "dummy"
    up,           \* whether the Redis server can be reached now
    store,        \* the server's keys: key -> [text, exp]
    rclock,       \* the server's clock, in seconds
    rpc,          \* the caller of a wrapped function: "idle", or "func" while
                  \* the computation runs
    rkey,         \* its cache_key
    out,          \* what the last finished operation did and returned
    call,         \* the wrapper call that is in progress or that out is about
    rcount        \* number of wrapper calls started

resultVars == <<boot, svc, up, store, rclock, rpc, rkey, out, call, rcount>>

VARIABLES
    \* ---- the task backend the routes use (celery_app.py, task_utils.py) ---
    celeryLib,    \* whether celery can be imported
    brokerUrl,    \* settings.redis_url: "" or the URL of a broker
    bpc,          \* the process: the module being imported at startup, then
                  \* "serving", or "crashed"
    celeryApp,    \* celery_app: "unset", "Celery" or "DummyCelery"
    taskKind,     \* what the names in tasks.py are bound to: "unset",
                  \* "celery_task" or "function"
    sent,         \* the tasks published to the broker: id -> state
    nreq,         \* number of requests that reached queue_task
    bout          \* what the last request got: its kind, the task id, the
                  \* state reported, the executor that has the task

backendVars == <<celeryLib, brokerUrl, bpc, celeryApp, taskKind, sent, nreq, bout>>

VARIABLES
    \* ---- threads calling NetworkCache ------------------------------------
    lock,         \* self._lock: the thread inside "with self._lock", or 0
    tpc,          \* per thread: the statement of the method it is at
    tcall,        \* per thread: the call it is making
    snap,         \* history: cache, hits and misses when the lock was taken
    tnow,         \* the time.time() the call read, -1 before
    tval          \* what the call is going to return

threadVars == <<lock, tpc, tcall, snap, tnow, tval>>

VARIABLES
    \* ---- the statistics and plot routes ----------------------------------
    registry,     \* the networks table: per id absent, open or foreign
    queued,       \* the tasks queue_task has sent, oldest first
    areq,         \* the last request body received
    areply        \* the reply to it

apiVars == <<registry, queued, areq, areply>>

VARIABLES
    \* ---- the keys of the Redis store and its clear operations ------------
    rkeys,        \* the keys the Redis server holds
    aop           \* the last operation on them and what it returned

adminVars == <<rkeys, aop>>

VARIABLES
    \* ---- the two component locks ------------------------------------------
    holder,       \* per lock: the thread that holds it, or 0
    lscript,      \* per thread: the lock operations of the call it is in
    lpos          \* per thread: the next of them

lockVars == <<holder, lscript, lpos>>

VARIABLES
    \* ---- NetworkService(file_path, use_cache) over one network file ---------
    bytes,        \* the version of the bytes the file holds
    recorded,     \* file_hash of the file's row in the table, or NoHash
    rechanged,    \* history: the hash last recorded replaced another one
    lpc,          \* where the constructor is
    lwho,         \* who constructs: a request or the reconciler
    ln            \* self.n, the constructed service's network, and where from

loadVars == <<bytes, recorded, rechanged, lpc, lwho, ln>>

VARIABLES
    \* ---- access to the networks of the table (api/deps.py) ----------------
    enable_auth,  \* settings.enable_auth
    owners,       \* per network id: user_id and is_public of its row, or NoNet
    aout          \* the last request for networks and its answer

accessVars == <<enable_auth, owners, aout>>

vars ==
    <<cacheVars, taskVars, scanVars, resultVars, backendVars,
      threadVars, apiVars, adminVars, lockVars, loadVars, accessVars>>

notCacheVars ==
    <<taskVars, scanVars, resultVars, backendVars, threadVars, apiVars,
      adminVars, lockVars, loadVars, accessVars>>

notTaskVars ==
    <<cacheVars, scanVars, resultVars, backendVars, threadVars,
      apiVars, adminVars, lockVars, loadVars, accessVars>>

notScanVars ==
    <<cacheVars, taskVars, resultVars, backendVars, threadVars,
      apiVars, adminVars, lockVars, loadVars, accessVars>>

notResultVars ==
    <<cacheVars, taskVars, scanVars, backendVars, threadVars, apiVars,
      adminVars, lockVars, loadVars, accessVars>>

notBackendVars ==
    <<cacheVars, taskVars, scanVars, resultVars, threadVars, apiVars,
      adminVars, lockVars, loadVars, accessVars>>

\* what a thread inside NetworkCache leaves alone
notThreadVars ==
    <<ret, recent, taskVars, scanVars, resultVars, backendVars,
      apiVars, adminVars, lockVars, loadVars, accessVars>>

notApiVars ==
    <<cacheVars, taskVars, scanVars, resultVars, backendVars,
      threadVars, adminVars, lockVars, loadVars, accessVars>>

notAdminVars ==
    <<cacheVars, taskVars, scanVars, resultVars, backendVars,
      threadVars, apiVars, lockVars, loadVars, accessVars>>

notLockVars ==
    <<cacheVars, taskVars, scanVars, resultVars, backendVars,
      threadVars, apiVars, adminVars, loadVars, accessVars>>

notLoadVars ==
    <<cacheVars, taskVars, scanVars, resultVars, backendVars,
      threadVars, apiVars, adminVars, lockVars, accessVars>>

notAccessVars ==
    <<cacheVars, taskVars, scanVars, resultVars, backendVars,
      threadVars, apiVars, adminVars, lockVars, loadVars>>

\* what a constructor that goes through the cache leaves alone
notCacheLoadVars ==
    <<taskVars, scanVars, resultVars, backendVars, threadVars, apiVars,
      adminVars, lockVars, accessVars>>

None == "None"

(***************************************************************************)
(* Bounds of the model.                                                    *)
(***************************************************************************)
NumKeys == 3
max_size == 2
ttl_seconds == 1
MaxTime == 2
MaxCount == 2
MaxTasks == 2
MaxClock == 3
MaxEvents == 3
StoreTtl == 2
MaxStoreTime == 3
MaxCalls == 2
MaxRequests == 3

Keys == 1..NumKeys

\* the network objects: pypsa.Network(file_path) makes a new one at each load,
\* and both callers of put pass the one they have just loaded
NetworkNames == <<"n1", "n2", "n3", "n4", "n5", "n6">>

LoadedAt(t) == NetworkNames[t + 1]

Vals == {LoadedAt(t) : t \in 0..MaxTime}

(***************************************************************************)
(* NetworkCache                                                            *)
(***************************************************************************)
Has(c, k) == \E i \in 1..Len(c) : c[i].key = k

IndexOf(c, k) == CHOOSE i \in 1..Len(c) : c[i].key = k

KeysOf(c) == {c[i].key : i \in 1..Len(c)}

\* del self.cache[key]
Del(c, k) == SelectSeq(c, LAMBDA e : e.key # k)

\* OrderedDict.move_to_end(key)
MoveToEnd(c, k) == Del(c, k) \o <<c[IndexOf(c, k)]>>

SetItem_KeepsAge(c, k, v, t) ==
    IF Has(c, k)
    THEN [c EXCEPT ![IndexOf(c, k)] = [key |-> k, value |-> v, ts |-> @.ts]]
    ELSE Append(c, [key |-> k, value |-> v, ts |-> t])

\* self.cache[key] = (network, time.time()): a present key keeps its place,
\* a new key goes to the end
SetItem(c, k, v, t) ==
    IF Has(c, k)
    THEN [c EXCEPT ![IndexOf(c, k)] = [key |-> k, value |-> v, ts |-> t]]
    ELSE Append(c, [key |-> k, value |-> v, ts |-> t])

Expired_NoTtl(ts, t) == FALSE

\* time.time() - timestamp > self.ttl_seconds
Expired(ts, t) == t - ts > ttl_seconds

NeedsEviction_OffByOne(c, k) == Len(c) > max_size /\ ~Has(c, k)

\* len(self.cache) >= self.max_size and key not in self.cache
NeedsEviction(c, k) == Len(c) >= max_size /\ ~Has(c, k)

Refresh_Forgotten(c, k) == c

\* the hit path of get: self.cache.move_to_end(key)
Refresh(c, k) == MoveToEnd(c, k)

\* history: the access order after the call, given the keys the cache then holds
Accessed(r, k, ks) == SelectSeq(r, LAMBDA x : x \in ks /\ x # k) \o <<k>>

Kept(r, ks) == SelectSeq(r, LAMBDA x : x \in ks)

\* replaced: history, whether a put found its key present
NoRet == [op |-> "none", value |-> None, evicted |-> 0, purged |-> FALSE,
          replaced |-> FALSE]

\* NetworkCache.get on the cache variables
CacheGet(k) ==
    /\ hits + misses < MaxCount
    /\ IF ~Has(cache, k)
       THEN /\ misses' = misses + 1
            /\ ret' = [NoRet EXCEPT !.op = "get"]
            /\ UNCHANGED <<cache, hits, recent>>
       ELSE LET e == cache[IndexOf(cache, k)] IN
            IF Expired(e.ts, now)
            THEN /\ cache' = Del(cache, k)
                 /\ misses' = misses + 1
                 /\ ret' = [NoRet EXCEPT !.op = "get", !.purged = TRUE]
                 /\ recent' = Kept(recent, KeysOf(cache'))
                 /\ UNCHANGED hits
            ELSE /\ cache' = Refresh(cache, k)
                 /\ hits' = hits + 1
                 /\ ret' = [NoRet EXCEPT !.op = "get", !.value = e.value]
                 /\ recent' = Accessed(recent, k, KeysOf(cache'))
                 /\ UNCHANGED misses
    /\ UNCHANGED now

Get(k) == CacheGet(k) /\ UNCHANGED notCacheVars

\* NetworkCache.put on the cache variables
CachePut(k, v) ==
    /\ LET evict == NeedsEviction(cache, k)
           c1 == IF evict THEN Tail(cache) ELSE cache
           c2 == SetItem(c1, k, v, now)
       IN /\ cache' = MoveToEnd(c2, k)
          /\ ret' = [NoRet EXCEPT !.op = "put",
                        !.evicted = IF evict THEN Head(cache).key ELSE 0,
                        !.replaced = Has(cache, k)]
    /\ recent' = Accessed(recent, k, KeysOf(cache'))
    /\ UNCHANGED <<hits, misses, now>>

Put(k, v) == CachePut(k, v) /\ UNCHANGED notCacheVars

Clear ==
    /\ cache' = <<>>
    /\ hits' = 0
    /\ misses' = 0
    /\ ret' = [NoRet EXCEPT !.op = "clear"]
    /\ recent' = <<>>
    /\ UNCHANGED now
    /\ UNCHANGED notCacheVars

Stats ==
    /\ ret' = [NoRet EXCEPT !.op = "stats"]
    /\ UNCHANGED <<cache, hits, misses, now, recent>>
    /\ UNCHANGED notCacheVars

TickCache ==
    /\ now < MaxTime
    /\ now' = now + 1
    /\ UNCHANGED <<cache, hits, misses, ret, recent>>
    /\ UNCHANGED notCacheVars

InitCache ==
    /\ cache = <<>>
    /\ hits = 0
    /\ misses = 0
    /\ now = 0
    /\ ret = NoRet
    /\ recent = <<>>

(***************************************************************************)
(* InMemoryTaskQueue and the task envelope                                 *)
(***************************************************************************)
\* timedelta(hours=24), in ticks of 12 hours
RETENTION == 2

Tids == 1..MaxTasks

\* the request parameters a route passes to queue_task
Params == {"p1", "p2"}

\* str(e) of the exception a computation raises
Msgs == {"boom"}

\* generated_at is the clock reading, or -1 for the field's default None
NoEnv == [status |-> "none", task_id |-> 0, generated_at |-> -1, data |-> None,
          request |-> None, error |-> None]

\* TaskResult(status="success", task_id=..., generated_at=now, data=data,
\*            request=kwargs).model_dump()
SuccessEnv(tid, kw) ==
    [status |-> "success", task_id |-> tid, generated_at |-> clock,
     data |-> <<"data", kw>>, request |-> kw, error |-> None]

ErrorEnv_NoMessage(tid, msg) ==
    [status |-> "error", task_id |-> tid, generated_at |-> -1, data |-> None,
     request |-> None, error |-> None]

\* TaskResult(status="error", task_id=..., error=str(e)).model_dump()
ErrorEnv(tid, msg) ==
    [status |-> "error", task_id |-> tid, generated_at |-> -1, data |-> None,
     request |-> None, error |-> msg]

\* the meta dict of update_state: a status message and, when given, current
\* and total; -1 stands for a key that is absent
Meta(message, cur, tot) ==
    [status |-> message, current |-> cur, total |-> tot]

NoMeta == Meta(None, -1, -1)

\* the progress a running computation reports, a first step being step 0
Reports == {Meta("half", 0, 2), Meta("half", 1, 2)}

\* _tasks[tid] = {"state": "PENDING", "created_at": now}
NewRecord(t) ==
    [state |-> "PENDING", created_at |-> t, meta |-> NoMeta, result |-> NoEnv,
     exception |-> None]

Sweep_KeepsAll(ts, t) == ts

\* the retention sweep: del _tasks[k] for created_at < now - 24 h
Sweep(ts, t) ==
    [k \in {x \in DOMAIN ts : ~(ts[x].created_at < t - RETENTION)} |-> ts[k]]

MarkProgress_Skipped(ts, tid, meta) == ts

\* Task.update_state(state="PROGRESS", meta={"status": ...})
MarkProgress(ts, tid, meta) ==
    IF tid \in DOMAIN ts
    THEN [ts EXCEPT ![tid].state = "PROGRESS", ![tid].meta = meta]
    ELSE ts

\* no response: every other step of the model forgets the last one
NoResp == [task_id |-> 0, state |-> "none", status |-> None, current |-> -1,
           total |-> -1, result |-> NoEnv,
           error |-> None]

\* apply_async: a fresh id, its PENDING record, the sweep, _pool.submit(run)
Submit(kw) ==
    /\ nextTid < MaxTasks
    /\ LET tid == nextTid + 1 IN
       /\ nextTid' = tid
       /\ tasks' = Sweep([k \in DOMAIN tasks \cup {tid} |->
                             IF k = tid THEN NewRecord(clock) ELSE tasks[k]], clock)
       /\ job' = [job EXCEPT ![tid] = kw]
       /\ queue' = Append(queue, tid)
    /\ UNCHANGED <<wpc, wtid, wres, clock, threw, stored, finished, escaped>>
    /\ resp' = NoResp
    /\ UNCHANGED notTaskVars

PoolFree_Unbounded(pc) == TRUE

\* _pool = ThreadPoolExecutor(max_workers=1): the worker is free
PoolFree(pc) == pc = "idle"

\* the pool's only worker takes the next closure
WorkerStart ==
    /\ PoolFree(wpc)
    /\ queue # <<>>
    /\ wtid' = Head(queue)
    /\ queue' = Tail(queue)
    /\ wpc' = "update_state"
    /\ UNCHANGED <<tasks, nextTid, wres, job, clock, threw, stored,
                   finished, escaped>>
    /\ resp' = NoResp
    /\ UNCHANGED notTaskVars

\* _execute_task, line 23
UpdateState ==
    /\ wpc = "update_state"
    /\ tasks' = MarkProgress(tasks, wtid, Meta("in progress", -1, -1))
    /\ wpc' = "func"
    /\ UNCHANGED <<nextTid, queue, wtid, wres, job, clock, threw, stored,
                   finished, escaped>>
    /\ resp' = NoResp
    /\ UNCHANGED notTaskVars

\* the body of a bound task calls Task.update_state(state="PROGRESS", meta=r)
ReportProgress(r) ==
    /\ wpc = "func"
    /\ wtid \in DOMAIN tasks
    /\ tasks[wtid].meta # r
    /\ tasks' = MarkProgress(tasks, wtid, r)
    /\ UNCHANGED <<nextTid, queue, wpc, wtid, wres, job, clock, threw, stored,
                   finished, escaped>>
    /\ resp' = NoResp
    /\ UNCHANGED notTaskVars

\* _execute_task, lines 24-32: the computation returns
FuncReturns ==
    /\ wpc = "func"
    /\ wres' = SuccessEnv(wtid, job[wtid])
    /\ wpc' = "store"
    /\ UNCHANGED <<tasks, nextTid, queue, wtid, job, clock, threw, stored,
                   finished, escaped>>
    /\ resp' = NoResp
    /\ UNCHANGED notTaskVars

\* _execute_task, lines 33-46: the computation raises, the envelope is returned
FuncRaises(msg) ==
    /\ wpc = "func"
    /\ wres' = ErrorEnv(wtid, msg)
    /\ threw' = threw \cup {wtid}
    /\ wpc' = "store"
    /\ UNCHANGED <<tasks, nextTid, queue, wtid, job, clock, stored,
                   finished, escaped>>
    /\ resp' = NoResp
    /\ UNCHANGED notTaskVars

\* run(), lines 78-79: _tasks[tid].update(...) raises KeyError without a record
StoreResult ==
    /\ wpc = "store"
    /\ IF wtid \in DOMAIN tasks
       THEN /\ tasks' = [tasks EXCEPT ![wtid].state = "SUCCESS",
                                      ![wtid].result = wres]
            /\ stored' = stored \cup {wtid}
            /\ finished' = finished \cup {wtid}
            /\ wpc' = "idle"
            /\ wtid' = 0
            /\ wres' = NoEnv
       ELSE /\ wpc' = "except"
            /\ UNCHANGED <<tasks, stored, finished, wtid, wres>>
    /\ UNCHANGED <<nextTid, queue, job, clock, threw, escaped>>
    /\ resp' = NoResp
    /\ UNCHANGED notTaskVars

\* run(), lines 80-89: the handler's own _tasks[tid].update(...) raises KeyError
\* again when the record is missing, and run() ends with that exception
ExceptStore ==
    /\ wpc = "except"
    /\ IF wtid \in DOMAIN tasks
       THEN /\ tasks' = [tasks EXCEPT ![wtid].state = "FAILURE",
                                      ![wtid].exception = "KeyError"]
            /\ UNCHANGED escaped
       ELSE /\ escaped' = escaped \cup {wtid}
            /\ UNCHANGED tasks
    /\ finished' = finished \cup {wtid}
    /\ wpc' = "idle"
    /\ wtid' = 0
    /\ wres' = NoEnv
    /\ UNCHANGED <<nextTid, queue, job, clock, threw, stored>>
    /\ resp' = NoResp
    /\ UNCHANGED notTaskVars

\* "if current := info.get("current"):" the value when it is present and
\* truthy, else the key is left out of the response
IfTruthy(n) == IF n = -1 \/ n = 0 THEN -1 ELSE n

\* InMemoryAsyncResult.state
StateOf(ts, tid) == IF tid \in DOMAIN ts THEN ts[tid].state ELSE "PENDING"

\* get_task_status_response
StatusResponse(ts, tid) ==
    LET st == StateOf(ts, tid)
        base == [NoResp EXCEPT !.task_id = tid, !.state = st]
    IN CASE st = "PENDING" -> [base EXCEPT !.status = "Task is waiting to be executed"]
         [] st = "PROGRESS" ->
              LET info == ts[tid].meta IN
              [base EXCEPT !.status = IF info = NoMeta THEN "Processing..."
                                      ELSE info.status,
                           !.current = IfTruthy(info.current),
                           !.total = IfTruthy(info.total)]
         [] st = "SUCCESS" -> [base EXCEPT !.result = ts[tid].result]
         [] st = "FAILURE" -> [base EXCEPT !.error = ts[tid].exception]

GetStatus(tid) ==
    /\ resp' = StatusResponse(tasks, tid)
    /\ UNCHANGED <<tasks, nextTid, queue, wpc, wtid, wres, job, clock,
                   threw, stored, finished, escaped>>
    /\ UNCHANGED notTaskVars

\* time passes while a computation runs or the pool has nothing to do
TickTasks ==
    /\ clock < MaxClock
    /\ wpc = "func" \/ (wpc = "idle" /\ queue = <<>>)
    /\ clock' = clock + 1
    /\ resp' = NoResp
    /\ UNCHANGED <<tasks, nextTid, queue, wpc, wtid, wres, job,
                   threw, stored, finished, escaped>>
    /\ UNCHANGED notTaskVars

InitTasks ==
    /\ tasks = <<>>
    /\ nextTid = 0
    /\ queue = <<>>
    /\ wpc = "idle"
    /\ wtid = 0
    /\ wres = NoEnv
    /\ job = [t \in Tids |-> None]
    /\ clock = 0
    /\ resp = NoResp
    /\ threw = {}
    /\ stored = {}
    /\ finished = {}
    /\ escaped = {}

(***************************************************************************)
(* scan_networks and _process_network_file                                 *)
(***************************************************************************)
Procs == {1, 2}

Paths == {"a.nc", "b.nc"}

\* what a file can hold: a loadable network, a loadable network with no bus
\* coordinates, and bytes that pypsa.Network() cannot load
Contents == {"v1", "nosvg", "bad"}

NoFile == "NoFile"

\* str(e) of the exception raised for a file that cannot be loaded
ScanMsgs == {"", "boom"}

\* NetworkService(file_path, use_cache=False): validate_path(must_exist=True)
\* and pypsa.Network(file_path) return
Loads(c) == c \in {"v1", "nosvg"}

\* NetworkService.calculate_file_hash: SHA-256 of the bytes
HashOf(c) == CASE c = "v1" -> "sha:v1" [] c = "nosvg" -> "sha:nosvg" [] OTHER -> "sha:bad"

\* NetworkService.get_file_size
SizeOf(c) == CASE c = "v1" -> 11 [] c = "nosvg" -> 13 [] OTHER -> 14

\* NetworkService.extract_database_info
InfoOf(c) == CASE c = "v1" -> "info:v1" [] c = "nosvg" -> "info:nosvg" [] OTHER -> "info:bad"

\* generate_topology_svg: None when no bus has coordinates
SvgOf(c) == CASE c = "v1" -> "svg:v1" [] OTHER -> None

\* update_history IS NULL (a row older than the column)
NullHistory == <<-1>>

NoRow == [id |-> 0, file_path |-> None, file_hash |-> None, file_size |-> 0,
          info |-> None, topology_svg |-> None, update_history |-> <<>>]

\* Network(...), lines 341-353
NewRow(id, path, c, t) ==
    [id |-> id, file_path |-> path, file_hash |-> HashOf(c), file_size |-> SizeOf(c),
     info |-> InfoOf(c), topology_svg |-> SvgOf(c), update_history |-> <<t>>]

RowsAt(rows, path) == {r \in rows : r.file_path = path}

UniqueViolation_NoConstraint(rows, path) == FALSE

\* file_path = Column(Text, nullable=False, unique=True): the INSERT raises
\* IntegrityError when a committed row holds the path
UniqueViolation(rows, path) == RowsAt(rows, path) # {}

NeedsUpdate_Always(row, c) == TRUE

\* needs_update = existing.file_hash != file_hash
NeedsUpdate(row, c) == row.file_hash # HashOf(c)

\* needs_svg = existing.topology_svg is None
NeedsSvg(row) == row.topology_svg = None

\* lines 311-327: the row object after the assignments and the append
Changed(row, c, t) ==
    LET r1 == IF NeedsUpdate(row, c)
              THEN [row EXCEPT !.file_hash = HashOf(c), !.file_size = SizeOf(c),
                               !.info = InfoOf(c),
                               !.update_history =
                                   Append(IF row.update_history = NullHistory
                                          THEN <<>> ELSE row.update_history, t)]
              ELSE row
    IN IF NeedsSvg(row) THEN [r1 EXCEPT !.topology_svg = SvgOf(c)] ELSE r1

\* the attributes lines 311-327 assign. update_history is a plain JSON column
\* (models.py:91, no MutableList), so the session notices it only when line 323
\* assigns it; the append of line 324 changes the loaded list in place and
\* raises no attribute event.
Assigned(row, c) ==
    (IF NeedsUpdate(row, c)
     THEN {"file_hash", "file_size", "info"}
          \cup (IF row.update_history = NullHistory THEN {"update_history"} ELSE {})
     ELSE {})
    \cup (IF NeedsSvg(row) THEN {"topology_svg"} ELSE {})

WasUpdated_OnSvg(row, c) == NeedsUpdate(row, c) \/ NeedsSvg(row)

\* line 333: was_updated is needs_update, also when only the SVG was made
WasUpdated(row, c) == NeedsUpdate(row, c)

Flush_NoWhere(rows, obj, cols) ==
    {[f \in DOMAIN r |-> IF f \in cols THEN obj[f] ELSE r[f]] : r \in rows}

\* db.commit() of a changed row object: the UPDATE sets the columns whose
\* attributes were assigned, in the row with the object's primary key
Flush(rows, obj, cols) ==
    {IF r.id = obj.id
     THEN [f \in DOMAIN r |-> IF f \in cols THEN obj[f] ELSE r[f]]
     ELSE r : r \in rows}

\* the changes lines 311-327 leave in the Session
Made(row, c, t) == [obj |-> Changed(row, c, t), cols |-> Assigned(row, c)]

RECURSIVE Commit(_, _)
\* db.commit(): the UPDATE of every changed object the Session holds
Commit(rows, pend) ==
    IF pend = {} THEN rows
    ELSE LET e == CHOOSE x \in pend : TRUE
         IN Commit(Flush(rows, e.obj, e.cols), pend \ {e})

\* db.rollback(): the Session forgets the changes it holds
Rollback(pend) == {}

Other(p) == CHOOSE q \in Procs : q # p

Active(p) == spc[p] \in {"loop", "process"}

\* datetime.utcnow().isoformat(), read to the granularity of pass starts
UtcNow == scans

\* every list of at most Cardinality(Paths) paths
Orders == UNION {[1..n -> Paths] : n \in 0..Cardinality(Paths)}

\* the orders in which rglob can list the files that exist
Listings ==
    LET found == {f \in Paths : disk[f] # NoFile}
        n == Cardinality(found)
    IN {o \in [1..n -> found] : \A i, j \in 1..n : o[i] = o[j] => i = j}

\* lines 422-431 once the loop is over: db.close() ends the transaction and the
\* summary is returned; otherwise the loop goes on to the next file
Advance(p, lk) ==
    LET last == idx[p] >= Len(files[p]) IN
    /\ idx' = [idx EXCEPT ![p] = idx[p] + 1]
    /\ existing' = [existing EXCEPT ![p] = NoRow]
    /\ spc' = [spc EXCEPT ![p] = IF last THEN "done" ELSE "loop"]
    /\ status' = [status EXCEPT ![p] = IF last THEN "success" ELSE status[p]]
    /\ locks' = [locks EXCEPT ![p] = IF last THEN {} ELSE lk]
    /\ lastFull' = IF last /\ mode[p] # "mixed" THEN writes ELSE lastFull

\* scan_networks, lines 389-401 (and 422-431 when no file was found)
ScanStart(p, order) ==
    /\ spc[p] \in {"idle", "done"}
    \* passes are anonymous: the second slot holds a pass only while the first
    \* is busy
    /\ p = 2 => Active(1)
    /\ scans + writes < MaxEvents
    /\ scans' = scans + 1
    /\ added' = [added EXCEPT ![p] = 0]
    /\ updated' = [updated EXCEPT ![p] = 0]
    /\ errors' = [errors EXCEPT ![p] = <<>>]
    /\ idx' = [idx EXCEPT ![p] = 1]
    /\ raced' = [raced EXCEPT ![p] = {}]
    /\ raised' = [raised EXCEPT ![p] = {}]
    /\ order \in (IF dirExists THEN Listings ELSE {<<>>})
    /\ files' = [files EXCEPT ![p] = order]
    /\ spc' = [spc EXCEPT ![p] = IF order = <<>> THEN "done" ELSE "loop"]
    /\ status' = [status EXCEPT ![p] = IF ~dirExists THEN "error"
                                        ELSE IF order = <<>> THEN "success"
                                        ELSE "running"]
    /\ LET q == Other(p)
           m == IF Active(q) THEN "mixed"
                ELSE IF ~dirExists THEN "plain"
                ELSE IF lastFull = writes THEN "rerun"
                ELSE IF lastFull = writes - 1 /\ lastChange # None THEN "change"
                ELSE "plain"
       IN /\ mode' = [mode EXCEPT ![p] = m,
                                  ![q] = IF Active(q) THEN "mixed" ELSE mode[q]]
          /\ prevRow' = [prevRow EXCEPT ![p] =
                            IF m = "change"
                            THEN CHOOSE r \in RowsAt(db, lastChange) : TRUE
                            ELSE NoRow]
          /\ lastFull' = IF dirExists /\ order = <<>> /\ m # "mixed" THEN writes ELSE -1
    /\ UNCHANGED <<disk, dirExists, forUpdate, db, nextRow, locks, existing,
                   session, writes, lastChange>>
    /\ UNCHANGED notScanVars

\* lines 404-409: the lookup by exact path, FOR UPDATE; where the database
\* locks rows it waits while another transaction holds the row
Query(p) ==
    /\ spc[p] = "loop"
    /\ LET rows == RowsAt(db, files[p][idx[p]]) IN
       IF rows = {}
       THEN /\ existing' = [existing EXCEPT ![p] = NoRow]
            /\ UNCHANGED locks
       ELSE \E r \in rows :
            /\ forUpdate => r.id \notin locks[Other(p)]
            /\ existing' = [existing EXCEPT ![p] = r]
            /\ locks' = IF forUpdate
                        THEN [locks EXCEPT ![p] = locks[p] \cup {r.id}]
                        ELSE locks
    /\ spc' = [spc EXCEPT ![p] = "process"]
    /\ UNCHANGED <<disk, dirExists, forUpdate, db, nextRow, files, idx, added,
                   updated, errors, status, writes, scans, raced, raised,
                   session, lastFull, lastChange, mode, prevRow>>
    /\ UNCHANGED notScanVars

\* "if error:" (line 419): an empty string is false
Truthy(msg) == msg # ""

\* lines 411-420 with _process_network_file's except branch (366-377): the file
\* is missing or cannot be loaded; rollback, and the message goes to errors
ProcessRaises(p, msg) ==
    /\ spc[p] = "process"
    /\ LET path == files[p][idx[p]] IN
       /\ disk[path] = NoFile \/ ~Loads(disk[path])
       /\ errors' = [errors EXCEPT ![p] =
                        IF Truthy(msg)
                        THEN Append(errors[p], [filename |-> path, error |-> msg])
                        ELSE errors[p]]
       /\ raised' = [raised EXCEPT ![p] = raised[p] \cup {path}]
    /\ session' = [session EXCEPT ![p] = Rollback(session[p])]
    /\ Advance(p, {})
    /\ UNCHANGED <<disk, dirExists, forUpdate, db, nextRow, files, added,
                   updated, writes, scans, raced, lastChange, mode, prevRow>>
    /\ UNCHANGED notScanVars

\* the same except branch reached after lines 311-324 or 327 changed the row
\* object: generate_topology_svg (line 327) or db.commit() (line 331) raised
ProcessRaisesLate(p, msg) ==
    /\ spc[p] = "process"
    /\ existing[p] # NoRow
    /\ LET path == files[p][idx[p]]
           c == disk[path]
           row == existing[p]
       IN /\ c # NoFile /\ Loads(c)
          /\ NeedsUpdate(row, c) \/ NeedsSvg(row)
          /\ session' = [session EXCEPT ![p] =
                            Rollback(session[p] \cup {Made(row, c, UtcNow)})]
          /\ errors' = [errors EXCEPT ![p] =
                           IF Truthy(msg)
                           THEN Append(errors[p], [filename |-> path, error |-> msg])
                           ELSE errors[p]]
          /\ raised' = [raised EXCEPT ![p] = raised[p] \cup {path}]
    /\ Advance(p, {})
    /\ UNCHANGED <<disk, dirExists, forUpdate, db, nextRow, files, added,
                   updated, writes, scans, raced, lastChange, mode, prevRow>>
    /\ UNCHANGED notScanVars

\* lines 411-420 with _process_network_file's branch for a row that exists
\* (302-333)
ProcessExisting(p) ==
    /\ spc[p] = "process"
    /\ existing[p] # NoRow
    /\ LET path == files[p][idx[p]]
           c == disk[path]
           row == existing[p]
       IN /\ c # NoFile /\ Loads(c)
          /\ IF ~(NeedsUpdate(row, c) \/ NeedsSvg(row))
             THEN \* lines 307-309: return with the transaction left open
                  /\ Advance(p, locks[p])
                  /\ UNCHANGED <<db, updated, session>>
             ELSE /\ db' = Commit(db, session[p] \cup {Made(row, c, UtcNow)})
                  /\ session' = [session EXCEPT ![p] = {}]
                  /\ Advance(p, {})
                  /\ updated' = [updated EXCEPT ![p] =
                                    IF WasUpdated(row, c) THEN updated[p] + 1
                                    ELSE updated[p]]
    /\ UNCHANGED <<disk, dirExists, forUpdate, nextRow, files, added,
                   errors, writes, scans, raced, raised,
                   lastChange, mode, prevRow>>
    /\ UNCHANGED notScanVars

\* lines 411-420 with _process_network_file's branch for a new file (335-364)
ProcessNew(p) ==
    /\ spc[p] = "process"
    /\ existing[p] = NoRow
    /\ LET path == files[p][idx[p]]
           c == disk[path]
       IN /\ c # NoFile /\ Loads(c)
          /\ IF UniqueViolation(db, path)
             THEN \* IntegrityError: rollback, (False, False, None)
                  /\ raced' = [raced EXCEPT ![p] = raced[p] \cup {path}]
                  /\ session' = [session EXCEPT ![p] = Rollback(session[p])]
                  /\ UNCHANGED <<db, nextRow, added>>
             ELSE /\ db' = Commit(db, session[p])
                            \cup {NewRow(nextRow + 1, path, c, UtcNow)}
                  /\ session' = [session EXCEPT ![p] = {}]
                  /\ nextRow' = nextRow + 1
                  /\ added' = [added EXCEPT ![p] = added[p] + 1]
                  /\ UNCHANGED raced
    /\ Advance(p, {})
    /\ UNCHANGED <<disk, dirExists, forUpdate, files, updated, errors,
                   writes, scans, raised, lastChange, mode, prevRow>>
    /\ UNCHANGED notScanVars

\* the environment writes, replaces or deletes a file
WriteFile(path, c) ==
    /\ dirExists
    /\ scans + writes < MaxEvents
    /\ c # disk[path]
    /\ disk' = [disk EXCEPT ![path] = c]
    /\ writes' = writes + 1
    /\ lastChange' =
          IF /\ disk[path] # NoFile /\ Loads(disk[path])
             /\ c # NoFile /\ Loads(c)
             /\ \E r \in RowsAt(db, path) : r.file_hash = HashOf(disk[path])
          THEN path ELSE None
    /\ mode' = [p \in Procs |-> IF Active(p) THEN "mixed" ELSE mode[p]]
    /\ UNCHANGED <<dirExists, forUpdate, db, nextRow, locks, spc, files, idx,
                   existing, session, added, updated, errors, status, scans,
                   raced, raised, lastFull, prevRow>>
    /\ UNCHANGED notScanVars

\* a row written before the columns topology_svg and update_history existed
LegacyRow ==
    [id |-> 1, file_path |-> "a.nc", file_hash |-> HashOf("v1"),
     file_size |-> SizeOf("v1"), info |-> InfoOf("v1"), topology_svg |-> None,
     update_history |-> NullHistory]

\* no pass has run
InitPasses ==
    /\ locks = [p \in Procs |-> {}]
    /\ session = [p \in Procs |-> {}]
    /\ spc = [p \in Procs |-> "idle"]
    /\ files = [p \in Procs |-> <<>>]
    /\ idx = [p \in Procs |-> 1]
    /\ existing = [p \in Procs |-> NoRow]
    /\ added = [p \in Procs |-> 0]
    /\ updated = [p \in Procs |-> 0]
    /\ errors = [p \in Procs |-> <<>>]
    /\ status = [p \in Procs |-> "none"]
    /\ writes = 0
    /\ scans = 0
    /\ raced = [p \in Procs |-> {}]
    /\ raised = [p \in Procs |-> {}]
    /\ lastFull = -1
    /\ lastChange = None
    /\ mode = [p \in Procs |-> "plain"]
    /\ prevRow = [p \in Procs |-> NoRow]

InitScan ==
    /\ dirExists \in BOOLEAN
    /\ disk \in [Paths -> Contents \cup {NoFile}]
    /\ ~dirExists => \A f \in Paths : disk[f] = NoFile
    /\ forUpdate \in BOOLEAN
    /\ db = {}
    /\ nextRow = 0
    /\ InitPasses

\* the table holds one such row, and its file is still the one recorded
InitScanLegacy ==
    /\ dirExists = TRUE
    /\ disk \in [Paths -> Contents \cup {NoFile}]
    /\ disk[LegacyRow.file_path] = "v1"
    /\ forUpdate \in BOOLEAN
    /\ db = {LegacyRow}
    /\ nextRow = 1
    /\ InitPasses

(***************************************************************************)
(* cache.py: the cache decorator, CacheService and DummyCacheService       *)
(***************************************************************************)
\* inspect.signature(get_statistics).parameters
param_names == <<"file_paths", "statistic", "parameters">>

\* a JSON scalar, or a dict given as the list of its items in insertion order
Atom(a) == [t |-> "atom", a |-> a, d |-> <<>>]

Dict(d) == [t |-> "dict", a |-> "", d |-> d]

Item(k, v) == [k |-> k, v |-> v]

\* the values the arguments take; ParamsXY and ParamsYX are the same dict
\* built in two orders
ParamsXY == Dict(<<Item("x", "1"), Item("y", "2")>>)

ParamsYX == Dict(<<Item("y", "2"), Item("x", "1")>>)

ArgValues ==
    [file_paths : {Atom("a.nc")}, statistic : {Atom("capex"), Atom("opex")},
     parameters : {ParamsXY, ParamsYX}]

Range(q) == {q[i] : i \in DOMAIN q}

\* the orders in which the keyword arguments of a call are written: as the
\* function declares them, and reversed
KwOrders(m) ==
    LET k == Len(param_names) - m IN
    {[i \in 1..k |-> param_names[m + i]],
     [i \in 1..k |-> param_names[Len(param_names) + 1 - i]]}

\* func(*args, **kwargs): the first n parameters positionally, the others by
\* keyword in some order
CallsOf(av) ==
    UNION {{[args |-> [i \in 1..n |-> av[param_names[i]]],
             kwargs |-> [i \in DOMAIN o |-> Item(o[i], av[o[i]])]] :
               o \in KwOrders(n)} : n \in 0..Len(param_names)}

Calls == UNION {CallsOf(av) : av \in ArgValues}

NoCall == [args |-> <<>>, kwargs |-> <<>>]

\* lines 40-41: values = dict(zip(param_names, args)); values.update(kwargs)
ValuesOf(c) ==
    [i \in 1..Len(c.args) |-> Item(param_names[i], c.args[i])] \o c.kwargs

\* the order of str in Python, on the keys that occur
KeyOrder == <<"file_paths", "parameters", "statistic", "x", "y">>

KeyRank(k) == CHOOSE i \in DOMAIN KeyOrder : KeyOrder[i] = k

SortItems_Unsorted(d) == d

\* sort_keys=True: the items of a dict in the order of their keys
SortItems(d) ==
    [i \in DOMAIN d |->
        CHOOSE it \in Range(d) :
            Cardinality({jt \in Range(d) : KeyRank(jt.k) < KeyRank(it.k)}) = i - 1]

\* json.dumps(serializable, sort_keys=True), line 53: the text, as the list of
\* the items written
ArgsText(d) ==
    LET top == SortItems(d) IN
    [i \in DOMAIN top |->
        Item(top[i].k, IF top[i].v.t = "dict"
                       THEN Dict(SortItems(top[i].v.d)) ELSE top[i].v)]

\* lines 52-55: the prefix of the key template and the digest of the text
CacheKey(prefix, c) == [prefix |-> prefix, digest |-> ArgsText(ValuesOf(c))]

NoKey == [prefix |-> None, digest |-> <<>>]

\* the keys of the calls of the statistics wrapper (tasks.py, line 52)
KeyOf == [c \in Calls |-> CacheKey("statistics", c)]

\* the argument values of a call, whatever the way they were written
ArgsOf(c) == [n \in Range(param_names) |->
                 LET v == (CHOOSE it \in Range(ValuesOf(c)) : it.k = n).v
                 IN IF v.t = "dict" THEN Range(v.d) ELSE {v.a}]

\* what a wrapped computation returns: serialize_df of an empty Series, and
\* of one with data
Results == {"{}", "{'capex': 1.0}"}

\* json.dumps(value), line 98
JsonDumps(v) == CASE v = "{}" -> "text:{}" [] OTHER -> "text:{\"capex\": 1.0}"

\* json.loads(cached_data), line 93
JsonLoads(t) == CASE t = "text:{}" -> "{}" [] OTHER -> "{'capex': 1.0}"

\* "if cached_data:" on a str (line 92) and on the loaded value (line 59)
TruthyText(t) == t # ""

TruthyValue(v) == v # "{}" /\ v # None

NoOut == [op |-> "none", found |-> None, get |-> "none", set |-> "none",
          value |-> None, n |-> 0, raised |-> FALSE, invoked |-> 0,
          sawDown |-> FALSE, again |-> FALSE]

\* the outcome of a wrapper call whose computation raised
FuncRaised(o) ==
    o.op = "call" /\ o.raised /\ o.invoked = 1 /\ o.set = "none"

\* history: the call that starts follows a call with the same key whose
\* computation raised
Fresh(key) == [NoOut EXCEPT !.again = FuncRaised(out) /\ rkey = key]

\* the keys a Redis server holds: those not yet expired
Live(st, t) == [k \in {x \in DOMAIN st : st[x].exp > t} |-> st[k]]

SetEx_Dropped(st, k, ttl, text, t) == st

\* redis_client.setex(key, ttl, serialized)
SetEx(st, k, ttl, text, t) ==
    [x \in DOMAIN st \cup {k} |->
        IF x = k THEN [text |-> text, exp |-> t + ttl] ELSE st[x]]

\* wrapper, lines 38-61: the key is derived and looked up; a hit returns
CallStart(c) ==
    /\ rpc = "idle"
    /\ rcount < MaxCalls
    /\ rcount' = rcount + 1
    /\ LET key == KeyOf[c]
       IN
       /\ rkey' = key
       /\ call' = c
       /\ CASE svc = "dummy" ->
                 \* DummyCacheService.get
                 /\ out' = [Fresh(key) EXCEPT !.op = "calling", !.get = "absent"]
                 /\ rpc' = "func"
            [] svc = "redis" /\ ~up ->
                 \* redis_client.get raises ConnectionError, and so does the
                 \* wrapper
                 /\ out' = [Fresh(key) EXCEPT !.op = "call", !.get = "raised",
                                         !.raised = TRUE, !.sawDown = TRUE]
                 /\ rpc' = "idle"
            [] svc = "redis" /\ up ->
                 LET text == IF key \in DOMAIN store THEN store[key].text ELSE None
                     data == IF text # None /\ TruthyText(text)
                             THEN JsonLoads(text) ELSE None
                 IN IF TruthyValue(data)
                    THEN /\ out' = [Fresh(key) EXCEPT !.op = "call", !.found = text,
                                                 !.get = "value", !.value = data]
                         /\ rpc' = "idle"
                    ELSE /\ out' = [Fresh(key) EXCEPT !.op = "calling", !.found = text,
                                       !.get = IF data = None THEN "absent"
                                               ELSE "value"]
                         /\ rpc' = "func"
    /\ UNCHANGED <<boot, svc, up, store, rclock>>
    /\ UNCHANGED notResultVars

\* wrapper, lines 63-68: the computation returns r, which is stored and returned
CallFunc(r) ==
    /\ rpc = "func"
    /\ rpc' = "idle"
    /\ CASE svc = "dummy" ->
              \* DummyCacheService.set
              /\ out' = [out EXCEPT !.op = "call", !.invoked = 1, !.set = "false",
                                    !.value = r]
              /\ UNCHANGED store
         [] svc = "redis" /\ ~up ->
              \* redis_client.setex raises ConnectionError, and so does the
              \* wrapper
              /\ out' = [out EXCEPT !.op = "call", !.invoked = 1, !.set = "raised",
                                    !.raised = TRUE, !.sawDown = TRUE]
              /\ UNCHANGED store
         [] svc = "redis" /\ up ->
              /\ store' = SetEx(store, rkey, StoreTtl, JsonDumps(r), rclock)
              /\ out' = [out EXCEPT !.op = "call", !.invoked = 1, !.set = "true",
                                    !.value = r]
    /\ UNCHANGED <<boot, svc, up, rclock, rkey, call, rcount>>
    /\ UNCHANGED notResultVars

AfterRaise_StoresError(st, k, t) == SetEx(st, k, StoreTtl, "text:error", t)

\* wrapper, line 64, when func raises: line 65 (cache_service.set) is not
\* reached, the store is as it was
AfterRaise(st, k, t) == st

\* wrapper, line 64: the computation raises and the wrapper has no handler
CallFuncRaises ==
    /\ rpc = "func"
    /\ rpc' = "idle"
    /\ store' = AfterRaise(store, rkey, rclock)
    /\ out' = [out EXCEPT !.op = "call", !.invoked = 1, !.raised = TRUE]
    /\ UNCHANGED <<boot, svc, up, rclock, rkey, call, rcount>>
    /\ UNCHANGED notResultVars

\* clear_all_cache (the other clear operations differ in the pattern only)
ClearAll ==
    /\ rpc = "idle"
    /\ out.op # "clear"
    /\ CASE svc = "dummy" ->
              /\ out' = [NoOut EXCEPT !.op = "clear"]
              /\ UNCHANGED store
         [] svc = "redis" /\ ~up ->
              /\ out' = [NoOut EXCEPT !.op = "clear", !.raised = TRUE,
                                      !.sawDown = TRUE]
              /\ UNCHANGED store
         [] svc = "redis" /\ up ->
              /\ out' = [NoOut EXCEPT !.op = "clear", !.n = Cardinality(DOMAIN store)]
              /\ store' = <<>>
    /\ call' = NoCall
    /\ rkey' = NoKey
    /\ UNCHANGED <<boot, svc, up, rclock, rpc, rcount>>
    /\ UNCHANGED notResultVars

\* ping
Ping ==
    /\ rpc = "idle"
    /\ out.op # "ping"
    /\ out' = CASE svc = "dummy" -> [NoOut EXCEPT !.op = "ping", !.value = "False"]
                [] svc = "redis" /\ ~up ->
                       [NoOut EXCEPT !.op = "ping", !.raised = TRUE, !.sawDown = TRUE]
                [] svc = "redis" /\ up -> [NoOut EXCEPT !.op = "ping", !.value = "True"]
    /\ call' = NoCall
    /\ rkey' = NoKey
    /\ UNCHANGED <<boot, svc, up, store, rclock, rpc, rcount>>
    /\ UNCHANGED notResultVars

\* the Redis server becomes unreachable, or reachable again
StoreFlips ==
    /\ boot \in {"down", "up"}
    /\ up' = ~up
    /\ UNCHANGED <<boot, svc, store, rclock, rpc, rkey, out, call, rcount>>
    /\ UNCHANGED notResultVars

\* a second passes on the server; keys whose TTL has run out are gone
TickStore ==
    /\ rclock < MaxStoreTime
    /\ rclock' = rclock + 1
    /\ store' = Live(store, rclock + 1)
    /\ UNCHANGED <<boot, svc, up, rpc, rkey, out, call, rcount>>
    /\ UNCHANGED notResultVars

\* the import of cache.py, lines 11-16 and 230-247: CacheService unless redis
\* is missing, the URL is empty, or redis.from_url raises; from_url opens no
\* connection, so an unreachable server still gives a CacheService
InitResult ==
    /\ boot \in {"nolib", "nourl", "badurl", "down", "up"}
    /\ svc = IF boot \in {"down", "up"} THEN "redis" ELSE "dummy"
    /\ up = (boot = "up")
    /\ store = <<>>
    /\ rclock = 0
    /\ rpc = "idle"
    /\ rkey = NoKey
    /\ out = NoOut
    /\ call = NoCall
    /\ rcount = 0

\* redis is not installed
InitResultIdle == InitResult /\ boot = "nolib"

(***************************************************************************)
(* The task backend of the routes: celery_app.py, tasks.py, task_utils.py  *)
(***************************************************************************)
NoBout == [op |-> "none", task_id |-> 0, state |-> None, executor |-> None,
           raised |-> None]

\* task_utils.py, line 4: "from celery.result import AsyncResult" is not
\* guarded; the routes import task_utils before tasks
ImportTaskUtils ==
    /\ bpc = "task_utils"
    /\ bpc' = IF celeryLib THEN "celery_app" ELSE "crashed"
    /\ UNCHANGED <<celeryLib, brokerUrl, celeryApp, taskKind, sent, nreq, bout>>
    /\ UNCHANGED notBackendVars

\* celery_app.py, lines 11-47: Celery(broker=settings.redis_url, ...) whatever
\* the URL is; DummyCelery only on ImportError
ImportCeleryApp ==
    /\ bpc = "celery_app"
    /\ celeryApp' = IF celeryLib THEN "Celery" ELSE "DummyCelery"
    /\ bpc' = "tasks"
    /\ UNCHANGED <<celeryLib, brokerUrl, taskKind, sent, nreq, bout>>
    /\ UNCHANGED notBackendVars

\* tasks.py, lines 49-73: @celery_app.task(...) makes Celery tasks;
\* DummyCelery.task returns the function as it is
ImportTasks ==
    /\ bpc = "tasks"
    /\ taskKind' = IF celeryApp = "Celery" THEN "celery_task" ELSE "function"
    /\ bpc' = "serving"
    /\ UNCHANGED <<celeryLib, brokerUrl, celeryApp, sent, nreq, bout>>
    /\ UNCHANGED notBackendVars

\* queue_task: celery_task.apply_async(...). A plain function has no
\* apply_async; a Celery app without broker URL cannot publish; otherwise the
\* task goes to the broker.
QueueTask ==
    /\ bpc = "serving"
    /\ nreq < MaxRequests
    /\ nreq' = nreq + 1
    /\ CASE taskKind = "function" ->
              /\ bout' = [NoBout EXCEPT !.op = "queue", !.raised = "AttributeError"]
              /\ UNCHANGED sent
         [] taskKind = "celery_task" /\ brokerUrl = "" ->
              /\ bout' = [NoBout EXCEPT !.op = "queue", !.raised = "OperationalError"]
              /\ UNCHANGED sent
         [] taskKind = "celery_task" /\ brokerUrl # "" ->
              /\ sent' = [t \in DOMAIN sent \cup {nreq + 1} |->
                             IF t = nreq + 1 THEN "PENDING" ELSE sent[t]]
              /\ bout' = [NoBout EXCEPT !.op = "queue", !.task_id = nreq + 1,
                                        !.executor = "celery"]
    /\ UNCHANGED <<celeryLib, brokerUrl, bpc, celeryApp, taskKind>>
    /\ UNCHANGED notBackendVars

\* a Celery worker takes a published task and runs it to its end
CeleryWorker(t) ==
    /\ t \in DOMAIN sent
    /\ sent[t] # "SUCCESS"
    /\ sent' = [sent EXCEPT ![t] = IF sent[t] = "PENDING" THEN "PROGRESS"
                                   ELSE "SUCCESS"]
    /\ bout' = NoBout
    /\ UNCHANGED <<celeryLib, brokerUrl, bpc, celeryApp, taskKind, nreq>>
    /\ UNCHANGED notBackendVars

\* get_task_status_response: AsyncResult(task_id, app=celery_app).state; with
\* no result backend configured the read raises
PollStatus(t) ==
    /\ bpc = "serving"
    /\ bout' = IF brokerUrl = ""
               THEN [NoBout EXCEPT !.op = "poll", !.task_id = t,
                                   !.raised = "NotImplementedError"]
               ELSE [NoBout EXCEPT !.op = "poll", !.task_id = t,
                        !.executor = "celery",
                        !.state = IF t \in DOMAIN sent THEN sent[t] ELSE "PENDING"]
    /\ UNCHANGED <<celeryLib, brokerUrl, bpc, celeryApp, taskKind, sent, nreq>>
    /\ UNCHANGED notBackendVars

\* the process starts in any environment
InitBackend ==
    /\ celeryLib \in BOOLEAN
    /\ brokerUrl \in {"", "redis://broker"}
    /\ bpc = "task_utils"
    /\ celeryApp = "unset"
    /\ taskKind = "unset"
    /\ sent = <<>>
    /\ nreq = 0
    /\ bout = NoBout

\* celery installed, broker configured, nothing imported yet
InitBackendIdle == InitBackend /\ celeryLib /\ brokerUrl # ""

(***************************************************************************)
(* NetworkCache called from several threads, statement by statement        *)
(***************************************************************************)
Threads == {1, 2}

NoOp == [name |-> "none", key |-> 0, value |-> None]

Ops == {[name |-> "get", key |-> k, value |-> None] : k \in Keys}
       \cup {[name |-> "put", key |-> k, value |-> "n1"] : k \in Keys}
       \cup {[name |-> "clear", key |-> 0, value |-> None],
             [name |-> "stats", key |-> 0, value |-> None]}

NoVal == [value |-> None, size |-> 0, hits |-> 0, misses |-> 0]

NoSnap == [cache |-> <<>>, hits |-> 0, misses |-> 0]

LockFree_Ignored(l) == TRUE

\* threading.Lock.acquire: it waits while another thread holds the lock
LockFree(l) == l = 0

\* the call run alone on cache c, counters h and m, reading the time t
SeqEffect(op, c, h, m, t) ==
    CASE op.name = "get" ->
           IF ~Has(c, op.key)
           THEN [cache |-> c, hits |-> h, misses |-> m + 1, val |-> NoVal]
           ELSE LET e == c[IndexOf(c, op.key)] IN
                IF Expired(e.ts, t)
                THEN [cache |-> Del(c, op.key), hits |-> h, misses |-> m + 1,
                      val |-> NoVal]
                ELSE [cache |-> Refresh(c, op.key), hits |-> h + 1, misses |-> m,
                      val |-> [NoVal EXCEPT !.value = e.value]]
      [] op.name = "put" ->
           LET c1 == IF NeedsEviction(c, op.key) THEN Tail(c) ELSE c
           IN [cache |-> MoveToEnd(SetItem(c1, op.key, op.value, t), op.key),
               hits |-> h, misses |-> m, val |-> NoVal]
      [] op.name = "clear" ->
           [cache |-> <<>>, hits |-> 0, misses |-> 0, val |-> NoVal]
      [] op.name = "stats" ->
           [cache |-> c, hits |-> h, misses |-> m,
            val |-> [NoVal EXCEPT !.size = Len(c), !.hits = h, !.misses = m]]

\* "with self._lock:" of get (38), put (57), clear (83), stats (97)
Acquire(t, op) ==
    /\ tpc[t] = "idle"
    /\ LockFree(lock)
    /\ op.name = "get" => hits + misses < MaxCount
    /\ lock' = t
    /\ tpc' = [tpc EXCEPT ![t] = "start"]
    /\ tcall' = [tcall EXCEPT ![t] = op]
    /\ snap' = [cache |-> cache, hits |-> hits, misses |-> misses]
    /\ tnow' = -1
    /\ tval' = NoVal
    /\ UNCHANGED <<cache, hits, misses, now>>
    /\ UNCHANGED notThreadVars

\* get, lines 39-51, one statement at a time; a key that is gone when the
\* statement needs it raises KeyError
GetStep(t) ==
    /\ tcall[t].name = "get"
    /\ tpc[t] \in {"start", "read", "del", "count_miss", "move", "count_hit"}
    /\ LET k == tcall[t].key
           goto(l) == tpc' = [tpc EXCEPT ![t] = l]
       IN
       CASE tpc[t] = "start" ->
              /\ goto(IF Has(cache, k) THEN "read" ELSE "count_miss")
              /\ UNCHANGED <<cache, hits, misses, tnow, tval>>
         [] tpc[t] = "read" ->
              IF Has(cache, k)
              THEN LET e == cache[IndexOf(cache, k)] IN
                   /\ tnow' = now
                   /\ tval' = IF Expired(e.ts, now) THEN NoVal
                              ELSE [NoVal EXCEPT !.value = e.value]
                   /\ goto(IF Expired(e.ts, now) THEN "del" ELSE "move")
                   /\ UNCHANGED <<cache, hits, misses>>
              ELSE /\ tval' = [NoVal EXCEPT !.value = "KeyError"]
                   /\ goto("release")
                   /\ UNCHANGED <<cache, hits, misses, tnow>>
         [] tpc[t] = "del" ->
              /\ cache' = Del(cache, k)
              /\ tval' = IF Has(cache, k) THEN tval
                         ELSE [NoVal EXCEPT !.value = "KeyError"]
              /\ goto(IF Has(cache, k) THEN "count_miss" ELSE "release")
              /\ UNCHANGED <<hits, misses, tnow>>
         [] tpc[t] = "count_miss" ->
              /\ misses' = misses + 1
              /\ goto("release")
              /\ UNCHANGED <<cache, hits, tnow, tval>>
         [] tpc[t] = "move" ->
              /\ cache' = IF Has(cache, k) THEN Refresh(cache, k) ELSE cache
              /\ tval' = IF Has(cache, k) THEN tval
                         ELSE [NoVal EXCEPT !.value = "KeyError"]
              /\ goto(IF Has(cache, k) THEN "count_hit" ELSE "release")
              /\ UNCHANGED <<hits, misses, tnow>>
         [] tpc[t] = "count_hit" ->
              /\ hits' = hits + 1
              /\ goto("release")
              /\ UNCHANGED <<cache, misses, tnow, tval>>
    /\ UNCHANGED <<lock, tcall, snap, now>>
    /\ UNCHANGED notThreadVars

\* put, lines 59-72, one statement at a time
PutStep(t) ==
    /\ tcall[t].name = "put"
    /\ tpc[t] \in {"start", "evict", "set", "move"}
    /\ LET k == tcall[t].key
           goto(l) == tpc' = [tpc EXCEPT ![t] = l]
       IN
       CASE tpc[t] = "start" ->
              /\ goto(IF NeedsEviction(cache, k) THEN "evict" ELSE "set")
              /\ UNCHANGED <<cache, tnow, tval>>
         [] tpc[t] = "evict" ->
              \* next(iter(self.cache)) raises StopIteration on an empty dict
              /\ cache' = IF cache # <<>> THEN Tail(cache) ELSE cache
              /\ tval' = IF cache # <<>> THEN tval
                         ELSE [NoVal EXCEPT !.value = "StopIteration"]
              /\ goto(IF cache # <<>> THEN "set" ELSE "release")
              /\ UNCHANGED tnow
         [] tpc[t] = "set" ->
              /\ cache' = SetItem(cache, k, tcall[t].value, now)
              /\ tnow' = now
              /\ goto("move")
              /\ UNCHANGED tval
         [] tpc[t] = "move" ->
              /\ cache' = IF Has(cache, k) THEN MoveToEnd(cache, k) ELSE cache
              /\ tval' = IF Has(cache, k) THEN tval
                         ELSE [NoVal EXCEPT !.value = "KeyError"]
              /\ goto("release")
              /\ UNCHANGED tnow
    /\ UNCHANGED <<lock, tcall, snap, hits, misses, now>>
    /\ UNCHANGED notThreadVars

\* clear, lines 84-86
ClearStep(t) ==
    /\ tcall[t].name = "clear"
    /\ tpc[t] \in {"start", "zero"}
    /\ IF tpc[t] = "start"
       THEN /\ cache' = <<>>
            /\ tpc' = [tpc EXCEPT ![t] = "zero"]
            /\ UNCHANGED <<hits, misses>>
       ELSE /\ hits' = 0
            /\ misses' = 0
            /\ tpc' = [tpc EXCEPT ![t] = "release"]
            /\ UNCHANGED cache
    /\ UNCHANGED <<lock, tcall, snap, tnow, tval, now>>
    /\ UNCHANGED notThreadVars

\* stats, lines 98-110
StatsStep(t) ==
    /\ tcall[t].name = "stats"
    /\ tpc[t] = "start"
    /\ tval' = [NoVal EXCEPT !.size = Len(cache), !.hits = hits, !.misses = misses]
    /\ tpc' = [tpc EXCEPT ![t] = "release"]
    /\ UNCHANGED <<lock, tcall, snap, tnow, cache, hits, misses, now>>
    /\ UNCHANGED notThreadVars

\* the end of the with block: the lock is released and the call returns
Release(t) ==
    /\ tpc[t] = "release"
    /\ lock' = 0
    /\ tpc' = [tpc EXCEPT ![t] = "idle"]
    /\ tcall' = [tcall EXCEPT ![t] = NoOp]
    /\ snap' = NoSnap
    /\ tnow' = -1
    /\ tval' = NoVal
    /\ UNCHANGED <<cache, hits, misses, now>>
    /\ UNCHANGED notThreadVars

\* time passes, also while a thread is inside a method
TickThreads ==
    /\ now < MaxTime
    /\ now' = now + 1
    /\ UNCHANGED <<cache, hits, misses, threadVars>>
    /\ UNCHANGED notThreadVars

InitThreads ==
    /\ lock = 0
    /\ tpc = [t \in Threads |-> "idle"]
    /\ tcall = [t \in Threads |-> NoOp]
    /\ snap = NoSnap
    /\ tnow = -1
    /\ tval = NoVal

(***************************************************************************)
(* The statistics and plot routes (api/routes/statistics.py,               *)
(* api/routes/plots.py).  FastAPI builds the request model first; a        *)
(* ValueError from a field validator is answered 422 and the route body    *)
(* does not run.  The body looks the networks up (404 when one is missing  *)
(* or not accessible) and then hands the task to queue_task.               *)
(***************************************************************************)
MaxQueued == 2

ALLOWED_STATISTICS ==
    {"capex", "installed_capex", "expanded_capex", "opex", "system_cost",
     "revenue", "market_value", "installed_capacity", "expanded_capacity",
     "optimal_capacity", "supply", "withdrawal", "curtailment",
     "capacity_factor", "transmission", "energy_balance", "prices"}

ALLOWED_CHART_TYPES ==
    {"area", "bar", "map", "scatter", "line", "box", "violin", "histogram"}

NetworkIds == {"n1", "n2"}

\* the table order of the rows, which is the order .all() returns them in
TableOrder == <<"n1", "n2">>

\* request bodies: id lists that are empty, repeat an id or name two networks;
\* a statistic and a plot type inside the allowlist and one outside
IdLists ==
    {<<>>} \cup {<<a>> : a \in NetworkIds}
           \cup {<<a, b>> : a \in NetworkIds, b \in NetworkIds}

Statistics == {"capex", "__class__"}

PlotTypes == {"bar", "__call__"}

StatisticsRequests ==
    [network_ids : IdLists, statistic : Statistics, plot_type : {None}]

PlotRequests ==
    [network_ids : IdLists, statistic : Statistics, plot_type : PlotTypes]

NoRequest == [network_ids |-> <<>>, statistic |-> None, plot_type |-> None]

NoReply == [code |-> 0, task_id |-> 0]

\* the field validators: TRUE when the value is returned, FALSE when they raise
validate_network_ids(v) == Len(v) > 0

validate_statistic_Open(v) == TRUE

validate_statistic(v) == v \in ALLOWED_STATISTICS

validate_plot_type(v) == v \in ALLOWED_CHART_TYPES

StatisticsRequestValid(r) ==
    validate_network_ids(r.network_ids) /\ validate_statistic(r.statistic)

PlotRequestValid(r) ==
    /\ validate_network_ids(r.network_ids)
    /\ validate_statistic(r.statistic)
    /\ validate_plot_type(r.plot_type)

\* db.query(Network).filter(Network.id.in_(network_ids)).all()
NetworksIn(ids) ==
    SelectSeq(TableOrder,
              LAMBDA n : registry[n] # "absent"
                         /\ \E i \in 1..Len(ids) : ids[i] = n)

\* get_networks_or_404: TRUE when the rows are returned, FALSE when it raises
Found(ids) ==
    /\ Len(NetworksIn(ids)) = Len(ids)
    /\ \A i \in 1..Len(NetworksIn(ids)) : registry[NetworksIn(ids)[i]] = "open"

FilePaths(ids) == [i \in 1..Len(NetworksIn(ids)) |-> <<NetworksIn(ids)[i], ".nc">>]

\* queue_task: apply_async with the keyword arguments, reply with the task id
queue_task(task, r) ==
    /\ queued' = Append(queued, [task |-> task,
                                 file_paths |-> FilePaths(r.network_ids),
                                 statistic |-> r.statistic,
                                 plot_type |-> r.plot_type])
    /\ areply' = [code |-> 200, task_id |-> Len(queued) + 1]

Reject(code) ==
    /\ areply' = [code |-> code, task_id |-> 0]
    /\ UNCHANGED queued

\* POST /statistics/
get_statistics(r) ==
    /\ Len(queued) < MaxQueued
    /\ areq' = r
    /\ IF ~StatisticsRequestValid(r) THEN Reject(422)
       ELSE IF ~Found(r.network_ids) THEN Reject(404)
       ELSE queue_task("get_statistics_task", r)
    /\ UNCHANGED registry
    /\ UNCHANGED notApiVars

\* POST /plots/generate
generate_plot(r) ==
    /\ Len(queued) < MaxQueued
    /\ areq' = r
    /\ IF ~PlotRequestValid(r) THEN Reject(422)
       ELSE IF ~Found(r.network_ids) THEN Reject(404)
       ELSE queue_task("get_plot_task", r)
    /\ UNCHANGED registry
    /\ UNCHANGED notApiVars

InitApi ==
    /\ registry \in [NetworkIds -> {"absent", "open", "foreign"}]
    /\ queued = <<>>
    /\ areq = NoRequest
    /\ areply = NoReply

\* an empty networks table and no request yet
InitApiIdle == InitApi /\ registry = [n \in NetworkIds |-> "absent"]

(***************************************************************************)
(* The keys of the Redis store (cache.py).  The wrapper writes a result    *)
(* under "<prefix>:<first 12 hex digits of the md5 of the arguments>"; the *)
(* clear operations delete the keys that scan_iter finds for a glob        *)
(* pattern.  The digest is modelled by the arguments it was taken of, a    *)
(* network id by its name: a digest and an id are different texts.         *)
(***************************************************************************)
Md5(kw) == [kind |-> "md5", of |-> kw]

Uuid(n) == [kind |-> "uuid", of |-> <<n>>]

\* Network.file_path of the network with id n
PathOf(n) == <<n, ".nc">>

LayerTypes == {"buses", "lines"}

\* the keyword arguments of the three cached computations (tasks.py, 49-67)
MapArgs == {<<PathOf(n), <<l>>>> : n \in NetworkIds, l \in LayerTypes}

PlotArgs == {<<PathOf(n), <<"capex", "bar">>>> : n \in NetworkIds}

StatisticsArgs == {<<PathOf("n1"), <<"capex">>>>}

\* cache_key = f"{key_template.split(':')[0]}:{cache_hash}"
WrapperKey(prefix, kw) == [prefix |-> prefix, hash |-> Md5(kw)]

WrapperKeys ==
    {WrapperKey("map_data", kw) : kw \in MapArgs}
      \cup {WrapperKey("plot", kw) : kw \in PlotArgs}
      \cup {WrapperKey("statistics", kw) : kw \in StatisticsArgs}

\* a glob pattern "<head>:<tail>", where the head is a literal or "map_*" and
\* the tail is "*" or a literal text
AnyText == [kind |-> "any", of |-> <<>>]

Pattern(head, tail) == [head |-> head, tail |-> tail]

HeadMatches(head, prefix) ==
    CASE head = "*" -> TRUE
      [] head = "map_*" -> prefix \in {"map_data"}
      [] OTHER -> prefix = head

\* scan_iter(match=pattern): whether the key matches
Matches(pat, k) ==
    /\ HeadMatches(pat.head, k.prefix)
    /\ pat.tail = AnyText \/ pat.tail = k.hash

ScanIter(pat, ks) == {k \in ks : Matches(pat, k)}

NoAop == [op |-> "none", id |-> None, n |-> 0]

\* wrapper, line 66: cache_service.set(cache_key, result, ttl)
WrapperSet(k) ==
    /\ k \notin rkeys
    /\ rkeys' = rkeys \cup {k}
    /\ aop' = [NoAop EXCEPT !.op = "set"]
    /\ UNCHANGED notAdminVars

\* the TTL of a key runs out
KeyExpires(k) ==
    /\ k \in rkeys
    /\ rkeys' = rkeys \ {k}
    /\ aop' = [NoAop EXCEPT !.op = "expire"]
    /\ UNCHANGED notAdminVars

\* delete every key of each pattern in turn, counting the deletions
ClearPatterns(op, id, pats) ==
    LET RECURSIVE Run(_, _, _)
        Run(i, ks, n) ==
            IF i > Len(pats) THEN [ks |-> ks, n |-> n]
            ELSE Run(i + 1, ks \ ScanIter(pats[i], ks),
                     n + Cardinality(ScanIter(pats[i], ks)))
        r == Run(1, rkeys, 0)
    IN /\ rkeys' = r.ks
       /\ aop' = [op |-> op, id |-> id, n |-> r.n]
       /\ UNCHANGED notAdminVars

clear_plot_cache ==
    /\ aop.op # "clear_plot"
    /\ ClearPatterns("clear_plot", None, <<Pattern("plot", AnyText)>>)

clear_map_cache ==
    /\ aop.op # "clear_map"
    /\ ClearPatterns("clear_map", None, <<Pattern("map_*", AnyText)>>)

\* map_pattern = f"map_*:{network_id}", then plot_pattern = "plot:*"
clear_network_cache(network_id) ==
    /\ aop.op # "clear_network"
    /\ ClearPatterns("clear_network", network_id,
                     <<Pattern("map_*", Uuid(network_id)), Pattern("plot", AnyText)>>)

clear_all_cache ==
    /\ aop.op # "clear_all"
    /\ ClearPatterns("clear_all", None, <<Pattern("*", AnyText)>>)

InitAdmin ==
    /\ rkeys = {}
    /\ aop = NoAop

(***************************************************************************)
(* The two component locks: NetworkCache._lock (services/network.py) and   *)
(* _lock of the local task table (task_queue.py).  A call is the list of   *)
(* its lock operations in program order; request threads make the calls of *)
(* the routes, the pool's thread runs the submitted closures.              *)
(***************************************************************************)
LockNames == {"cache", "tasks"}

RequestThreads == {1, 2}

PoolThread == 3

LockThreads == RequestThreads \cup {PoolThread}

Acq(l) == [op |-> "acquire", lock |-> l]

Rel(l) == [op |-> "release", lock |-> l]

\* "with lock:" around statements that take no lock
WithLock(l) == <<Acq(l), Rel(l)>>

\* NetworkCache.get, put, clear, stats
CacheCall == WithLock("cache")

\* apply_async: the new record and the sweep
ApplyAsync == WithLock("tasks")

\* get_task_status_response on an InMemoryAsyncResult: state is read twice,
\* then info or result
StatusRead == WithLock("tasks") \o WithLock("tasks") \o WithLock("tasks")

RunTask_UnderLock ==
    <<Acq("tasks"), Acq("cache"), Rel("cache"), Rel("tasks")>>

\* run(): update_state, the computation (a cache get that misses, the load,
\* a cache put), then the record update
RunTask == WithLock("tasks") \o CacheCall \o CacheCall \o WithLock("tasks")

RequestCalls == {CacheCall, ApplyAsync, StatusRead}

CallsOfThread(t) == IF t = PoolThread THEN {RunTask} ELSE RequestCalls

InCall(t) == lscript[t] # <<>>

NextOp(t) == lscript[t][lpos[t]]

\* the thread is at an acquire of a lock another thread holds
Waits(t) ==
    /\ InCall(t)
    /\ NextOp(t).op = "acquire"
    /\ holder[NextOp(t).lock] # 0

\* on to the next lock operation, or out of the call after the last
StepOn(t) ==
    IF lpos[t] = Len(lscript[t])
    THEN /\ lscript' = [lscript EXCEPT ![t] = <<>>]
         /\ lpos' = [lpos EXCEPT ![t] = 1]
    ELSE /\ lpos' = [lpos EXCEPT ![t] = @ + 1]
         /\ UNCHANGED lscript

BeginCall(t, sc) ==
    /\ ~InCall(t)
    /\ lscript' = [lscript EXCEPT ![t] = sc]
    /\ lpos' = [lpos EXCEPT ![t] = 1]
    /\ UNCHANGED holder
    /\ UNCHANGED notLockVars

\* lock.acquire(): blocks while the lock is held
AcquireLock(t) ==
    /\ InCall(t)
    /\ NextOp(t).op = "acquire"
    /\ holder[NextOp(t).lock] = 0
    /\ holder' = [holder EXCEPT ![NextOp(t).lock] = t]
    /\ StepOn(t)
    /\ UNCHANGED notLockVars

\* lock.release() at the end of the with block
ReleaseLock(t) ==
    /\ InCall(t)
    /\ NextOp(t).op = "release"
    /\ holder' = [holder EXCEPT ![NextOp(t).lock] = 0]
    /\ StepOn(t)
    /\ UNCHANGED notLockVars

InitLocks ==
    /\ holder = [l \in LockNames |-> 0]
    /\ lscript = [t \in LockThreads |-> <<>>]
    /\ lpos = [t \in LockThreads |-> 1]

(***************************************************************************)
(* NetworkService.__init__ over one network file: a request constructs it  *)
(* with the default use_cache=True, the reconciler with use_cache=False    *)
(* (services/network.py, line 298) and then records the file's hash.       *)
(***************************************************************************)
MaxVersions == 2

Callers == {"request", "reconciler"}

\* str(self.file_path), the cache key of the file
ScannedKey == CHOOSE k \in Keys : \A k2 \in Keys : k <= k2

\* pypsa.Network(self.file_path): the object parsed from the bytes
Parsed(v) == [from |-> v]

\* NetworkService.calculate_file_hash
FileHash(v) == <<"sha256", v>>

NoHash == <<>>

NoLoad == [n |-> Parsed(0), via |-> "none"]

\* use_cache: the default of line 119, and the argument of line 298
UseCache(who) == who = "request"

\* the cache holds an entry for the key that has not expired
Warm(c, k, t) == Has(c, k) /\ ~Expired(c[IndexOf(c, k)].ts, t)

\* line 121: validate_path, then the branch on use_cache
ServiceStart(who) ==
    /\ lpc = "idle"
    /\ UseCache(who) => hits + misses < MaxCount
    /\ lwho' = who
    /\ lpc' = IF UseCache(who) THEN "get" ELSE "parse"
    /\ ln' = NoLoad
    /\ UNCHANGED <<bytes, recorded, rechanged>>
    /\ UNCHANGED <<cacheVars, notCacheLoadVars>>

\* line 125: _network_cache.get(self.file_path); a hit is self.n
ServiceGet ==
    /\ lpc = "get"
    /\ CacheGet(ScannedKey)
    /\ IF hits' = hits + 1
       THEN /\ ln' = [n |-> ret'.value, via |-> "cache"]
            /\ lpc' = "idle"
       ELSE /\ lpc' = "parse"
            /\ UNCHANGED ln
    /\ UNCHANGED <<bytes, recorded, rechanged, lwho>>
    /\ UNCHANGED notCacheLoadVars

\* line 128: self.n = pypsa.Network(self.file_path); for the reconciler the
\* constructor is over, and _process_network_file records the hash of the
\* bytes when it differs from the recorded one (lines 299-313)
ServiceParse ==
    /\ lpc = "parse"
    /\ ln' = [n |-> Parsed(bytes), via |-> "file"]
    /\ IF UseCache(lwho)
       THEN /\ lpc' = "put"
            /\ UNCHANGED <<recorded, rechanged>>
       ELSE /\ lpc' = "idle"
            /\ recorded' = FileHash(bytes)
            /\ rechanged' = IF recorded = FileHash(bytes) THEN rechanged
                            ELSE recorded # NoHash
    /\ UNCHANGED <<bytes, lwho>>
    /\ UNCHANGED <<cacheVars, notCacheLoadVars>>

\* line 138: _network_cache.put(self.file_path, self.n)
ServicePut ==
    /\ lpc = "put"
    /\ CachePut(ScannedKey, ln.n)
    /\ lpc' = "idle"
    /\ UNCHANGED <<bytes, recorded, rechanged, lwho, ln>>
    /\ UNCHANGED notCacheLoadVars

\* the file is replaced by other bytes
WriteBytes ==
    /\ bytes < MaxVersions
    /\ bytes' = bytes + 1
    /\ UNCHANGED <<recorded, rechanged, lpc, lwho, ln>>
    /\ UNCHANGED <<cacheVars, notCacheLoadVars>>

InitLoads ==
    /\ bytes = 1
    /\ recorded = NoHash
    /\ rechanged = FALSE
    /\ lpc = "idle"
    /\ lwho = "none"
    /\ ln = NoLoad

(***************************************************************************)
(* Access to the networks of the table (api/deps.py).  A request carries a *)
(* session cookie or none; get_current_user_optional turns it into a user  *)
(* or None, get_current_user answers 401 for None when authentication is   *)
(* enabled.  get_network_or_404 is a dependency of its own and takes the   *)
(* optional user; the statistics and plot routes take get_current_user and *)
(* hand the user to get_networks_or_404.                                   *)
(***************************************************************************)
Users == {"u1", "u2"}

\* the cookie of a live session of each user, of a session that is gone, or
\* no cookie
Cookies == {None, "s1", "s2", "gone"}

\* session_store.get_session and the User row it names
SessionUser(c) ==
    CASE c = "s1" -> "u1" [] c = "s2" -> "u2" [] OTHER -> None

NoNet == [present |-> FALSE, user_id |-> None, is_public |-> FALSE]

Rows ==
    {NoNet} \cup [present : {TRUE}, user_id : Users \cup {None},
                  is_public : BOOLEAN]

NoAout == [op |-> "none", user |-> None, ids |-> <<>>, code |-> 0,
           networks |-> {}, queued |-> FALSE]

\* get_current_user_optional, lines 23-57
get_current_user_optional(c) ==
    IF ~enable_auth THEN None
    ELSE IF c = None THEN None
    ELSE SessionUser(c)

\* get_current_user, lines 60-77: FALSE when it raises 401
get_current_user(user) == ~(enable_auth /\ user = None)

HasAccess_OwnerOnly(row, user) == row.user_id = user

\* has_access, lines 95-97 and 133-137
HasAccess(row, user) ==
    row.user_id = user \/ row.is_public \/ row.user_id = None

\* lines 93-99 and 131-140: the check is made for a user that is not None
Checked(user) == enable_auth /\ user # None

\* get_network_or_404: TRUE when the row is returned, FALSE for 404
get_network_or_404(n, user) ==
    /\ owners[n].present
    /\ Checked(user) => HasAccess(owners[n], user)

\* db.query(Network).filter(Network.id.in_(network_ids)).all(), as ids
RowsIn(ids) == {n \in NetworkIds : owners[n].present /\ n \in Range(ids)}

\* get_networks_or_404: TRUE when the rows are returned, FALSE for 404
get_networks_or_404(ids, user) ==
    /\ Cardinality(RowsIn(ids)) = Len(ids)
    /\ Checked(user) => \A n \in RowsIn(ids) : HasAccess(owners[n], user)

\* a route that depends on get_network_or_404
GetNetwork(c, n) ==
    /\ LET user == get_current_user_optional(c)
           ok == get_network_or_404(n, user)
       IN aout' = [op |-> "get_network", user |-> SessionUser(c), ids |-> <<n>>,
                   code |-> IF ok THEN 200 ELSE 404,
                   networks |-> IF ok THEN {n} ELSE {},
                   queued |-> FALSE]
    /\ UNCHANGED <<enable_auth, owners>>
    /\ UNCHANGED notAccessVars

\* POST /statistics/ with a valid body (POST /plots/generate is the same)
PostStatistics(c, ids) ==
    /\ validate_network_ids(ids)
    /\ LET user == get_current_user_optional(c)
           ok == get_networks_or_404(ids, user)
           code == IF ~get_current_user(user) THEN 401
                   ELSE IF ok THEN 200 ELSE 404
       IN aout' = [op |-> "statistics", user |-> SessionUser(c), ids |-> ids,
                   code |-> code,
                   networks |-> IF code = 200 THEN RowsIn(ids) ELSE {},
                   queued |-> code = 200]
    /\ UNCHANGED <<enable_auth, owners>>
    /\ UNCHANGED notAccessVars

InitAccess ==
    /\ enable_auth \in BOOLEAN
    /\ owners \in [NetworkIds -> Rows]
    /\ aout = NoAout

\* authentication disabled, an empty table
InitAccessIdle ==
    InitAccess /\ ~enable_auth /\ owners = [n \in NetworkIds |-> NoNet]

\* no networks directory, nothing scanned yet
InitScanIdle == InitScan /\ ~dirExists /\ ~forUpdate /\ db = {}

Init == InitCache /\ InitTasks /\ InitScan /\ InitResultIdle /\ InitBackendIdle
    /\ InitThreads /\ InitApiIdle /\ InitAdmin /\ InitLocks /\ InitLoads /\ InitAccessIdle

InitLegacy ==
    InitCache /\ InitTasks /\ InitScanLegacy /\ InitResultIdle /\ InitBackendIdle
    /\ InitThreads /\ InitApiIdle /\ InitAdmin /\ InitLocks /\ InitLoads /\ InitAccessIdle

InitServices ==
    InitCache /\ InitTasks /\ InitScanIdle /\ InitResultIdle /\ InitBackendIdle
    /\ InitThreads /\ InitApiIdle /\ InitAdmin /\ InitLocks /\ InitLoads /\ InitAccessIdle

InitStore ==
    InitCache /\ InitTasks /\ InitScanIdle /\ InitResult /\ InitBackendIdle
    /\ InitThreads /\ InitApiIdle /\ InitAdmin /\ InitLocks /\ InitLoads /\ InitAccessIdle

InitProcess ==
    InitCache /\ InitTasks /\ InitScanIdle /\ InitResultIdle /\ InitBackend
    /\ InitThreads /\ InitApiIdle /\ InitAdmin /\ InitLocks /\ InitLoads /\ InitAccessIdle

InitGateway ==
    InitCache /\ InitTasks /\ InitScanIdle /\ InitResultIdle /\ InitBackendIdle
    /\ InitThreads /\ InitApi /\ InitAdmin /\ InitLocks /\ InitLoads /\ InitAccessIdle

NextCache ==
    \/ \E k \in Keys : Get(k)
    \/ \E k \in Keys : Put(k, LoadedAt(now))
    \/ Clear
    \/ Stats
    \/ TickCache

SpecCache == InitServices /\ [][NextCache]_vars

NextTasks ==
    \/ \E kw \in Params : Submit(kw)
    \/ WorkerStart
    \/ UpdateState
    \/ FuncReturns
    \/ \E msg \in Msgs : FuncRaises(msg)
    \/ StoreResult
    \/ ExceptStore
    \/ \E tid \in Tids : GetStatus(tid)
    \/ TickTasks

SpecTasks == InitServices /\ [][NextTasks]_vars

\* _execute_task does not hand the task to the computation, so the tasks of
\* tasks.py report nothing but the message of line 23; SpecProgress is the
\* backend running a bound task whose body reports its progress as well
NextProgress ==
    \/ NextTasks
    \/ \E r \in Reports : ReportProgress(r)

SpecProgress == InitServices /\ [][NextProgress]_vars

NextScan ==
    \/ \E p \in Procs, order \in Orders : ScanStart(p, order)
    \/ \E p \in Procs : Query(p)
    \/ \E p \in Procs, msg \in ScanMsgs : ProcessRaises(p, msg)
    \/ \E p \in Procs : ProcessExisting(p)
    \/ \E p \in Procs : ProcessNew(p)
    \/ \E f \in Paths, c \in Contents \cup {NoFile} : WriteFile(f, c)

SpecScan == Init /\ [][NextScan]_vars

\* generate_topology_svg and db.commit() can fail as well
NextScanFaults ==
    \/ NextScan
    \/ \E p \in Procs, msg \in ScanMsgs : ProcessRaisesLate(p, msg)

SpecScanFaults == Init /\ [][NextScanFaults]_vars

SpecLegacy == InitLegacy /\ [][NextScan]_vars

NextResult ==
    \/ \E c \in Calls : CallStart(c)
    \/ \E r \in Results : CallFunc(r)
    \/ ClearAll
    \/ Ping
    \/ StoreFlips
    \/ TickStore

SpecResult == InitStore /\ [][NextResult]_vars

\* the wrapped computation can raise as well
NextResultFaults ==
    \/ NextResult
    \/ CallFuncRaises

SpecResultFaults == InitStore /\ [][NextResultFaults]_vars

NextBackend ==
    \/ ImportTaskUtils
    \/ ImportCeleryApp
    \/ ImportTasks
    \/ QueueTask
    \/ \E t \in 1..MaxRequests : CeleryWorker(t)
    \/ \E t \in 1..MaxRequests : PollStatus(t)

SpecBackend == InitProcess /\ [][NextBackend]_vars

NextThreads ==
    \/ \E t \in Threads, op \in Ops : Acquire(t, op)
    \/ \E t \in Threads : GetStep(t)
    \/ \E t \in Threads : PutStep(t)
    \/ \E t \in Threads : ClearStep(t)
    \/ \E t \in Threads : StatsStep(t)
    \/ \E t \in Threads : Release(t)
    \/ TickThreads

SpecThreads == InitServices /\ [][NextThreads]_vars

NextApi ==
    \/ \E r \in StatisticsRequests : get_statistics(r)
    \/ \E r \in PlotRequests : generate_plot(r)

SpecApi == InitGateway /\ [][NextApi]_vars

NextAdmin ==
    \/ \E k \in WrapperKeys : WrapperSet(k)
    \/ \E k \in WrapperKeys : KeyExpires(k)
    \/ clear_plot_cache
    \/ clear_map_cache
    \/ \E n \in NetworkIds : clear_network_cache(n)
    \/ clear_all_cache

SpecAdmin == InitServices /\ [][NextAdmin]_vars

NextLocks ==
    \/ \E t \in LockThreads : \E sc \in CallsOfThread(t) : BeginCall(t, sc)
    \/ \E t \in LockThreads : AcquireLock(t)
    \/ \E t \in LockThreads : ReleaseLock(t)

SpecLocks == InitServices /\ [][NextLocks]_vars

NextLoads ==
    \/ \E who \in Callers : ServiceStart(who)
    \/ ServiceGet
    \/ ServiceParse
    \/ ServicePut
    \/ WriteBytes
    \/ TickCache

SpecLoads == InitServices /\ [][NextLoads]_vars

InitDeps ==
    InitCache /\ InitTasks /\ InitScanIdle /\ InitResultIdle /\ InitBackendIdle
    /\ InitThreads /\ InitApiIdle /\ InitAdmin /\ InitLocks /\ InitLoads /\ InitAccess

NextAccess ==
    \/ \E c \in Cookies, n \in NetworkIds : GetNetwork(c, n)
    \/ \E c \in Cookies, ids \in IdLists : PostStatistics(c, ids)

SpecAccess == InitDeps /\ [][NextAccess]_vars

(***************************************************************************)
(* Claims about NetworkCache, checked under SpecCache.                     *)
(***************************************************************************)

\* C1: after any sequence of get, put, clear and stats calls (each runs under
\* the cache's lock, so every interleaving of threads is a sequence of whole
\* calls) the number of stored entries never exceeds max_size.
C1_SizeBound == Len(cache) <= max_size

\* C1 witness: the cache is full right after a put that had to evict.
C1_Witness == Len(cache) = max_size /\ ret.op = "put" /\ ret.evicted # 0

\* the entry a put of k and v leaves in the most recently used place
JustPut(k, v) ==
    /\ cache' # <<>>
    /\ cache'[Len(cache')].key = k
    /\ cache'[Len(cache')].value = v

\* C2: a get of an entry whose age now - inserted_at exceeds ttl_seconds
\* returns absent, removes the entry and counts one miss (and no hit); an
\* entry's inserted_at is never later than its last access, so this covers
\* every get made more than ttl_seconds after the last access.
C2_ExpiredGet ==
    [][\A k \in Keys :
         (ret'.op = "get" /\ Has(cache, k)
            /\ now - cache[IndexOf(cache, k)].ts > ttl_seconds /\ Get(k))
         => /\ ret'.value = None
            /\ ~Has(cache', k)
            /\ misses' = misses + 1
            /\ hits' = hits]_vars

\* C2 witness: a get has just found its entry expired and deleted it.
C2_Witness == ret.op = "get" /\ ret.purged /\ ret.value = None /\ misses > 0

\* C3: a put of an absent key into a cache at max_size removes exactly one
\* entry, the least recently accessed one (an access is a get that hit or a
\* put), and logs it as evicted; every other put removes nothing.
C3_EvictsLru ==
    [][\A k \in Keys, v \in Vals :
         (ret'.op = "put" /\ JustPut(k, v) /\ Put(k, v))
         => LET removed == KeysOf(cache) \ KeysOf(cache') IN
            IF Len(cache) = max_size /\ k \notin KeysOf(cache)
            THEN removed = {recent[1]} /\ ret'.evicted = recent[1]
            ELSE removed = {} /\ ret'.evicted = 0]_vars

\* C3 witness: a put has just evicted from a full cache after a get had hit.
C3_Witness ==
    ret.op = "put" /\ ret.evicted # 0 /\ hits > 0 /\ Len(cache) = max_size

\* C22: a put of a key that is present evicts nothing, even at max_size: the
\* other entries stay as they are, and the key's entry gets the new value, the
\* current time and the most recently used place.  A get that hits moves the
\* entry to the most recently used place with its value and its time as they
\* were.
C22_PutPresentReplaces ==
    [][/\ \A k \in Keys, v \in Vals :
            (ret'.op = "put" /\ JustPut(k, v) /\ Has(cache, k) /\ Put(k, v))
            => /\ ret'.evicted = 0
               /\ Del(cache', k) = Del(cache, k)
               /\ Len(cache') = Len(cache)
               /\ cache'[Len(cache')] = [key |-> k, value |-> v, ts |-> now]
       /\ \A k \in Keys :
            (ret'.op = "get" /\ hits' = hits + 1 /\ Has(cache, k) /\ Get(k))
            => /\ Del(cache', k) = Del(cache, k)
               /\ Len(cache') = Len(cache)
               /\ cache'[Len(cache')] = cache[IndexOf(cache, k)]]_vars

\* C22 witness: at max_size, a put has just replaced an entry that was not the
\* most recently used and was older than now, after a get had hit
C22_Witness ==
    /\ ret.op = "put" /\ ret.replaced /\ ret.evicted = 0
    /\ Len(cache) = max_size
    /\ cache[Len(cache)].ts = now
    /\ \E i \in 1..Len(cache) - 1 : cache[i].ts < now
    /\ hits > 0

(***************************************************************************)
(* Claims about the local task backend, checked under SpecTasks.           *)
(***************************************************************************)
Forward == {<<"PENDING", "PROGRESS">>, <<"PROGRESS", "SUCCESS">>,
            <<"PROGRESS", "FAILURE">>}

\* C4: a task's record starts PENDING and, for as long as the record exists,
\* its state only ever steps PENDING -> PROGRESS -> SUCCESS or FAILURE: no
\* state is skipped, none is re-entered, a terminal state never changes, and
\* an id that had a record never gets a new one.
C4_ForwardOnly ==
    [][/\ \A t \in DOMAIN tasks \cap DOMAIN tasks' :
             \/ tasks'[t].state = tasks[t].state
             \/ <<tasks[t].state, tasks'[t].state>> \in Forward
       /\ \A t \in DOMAIN tasks' \ DOMAIN tasks :
             tasks'[t].state = "PENDING" /\ t > nextTid]_vars

\* C4 witness: one task has gone all the way to SUCCESS while a later one is
\* in PROGRESS.
C4_Witness ==
    \E t, u \in DOMAIN tasks :
        /\ tasks[t].state = "SUCCESS" /\ t \in stored
        /\ tasks[u].state = "PROGRESS"

\* C5 (as claimed): once run() has ended for a task whose computation raised,
\* get_status reports state FAILURE and a non-empty error string.
C5_ThrowReportsFailure ==
    [][\A t \in Tids :
         (GetStatus(t) /\ t \in finished /\ t \in threw /\ t \in DOMAIN tasks)
         => /\ resp'.state = "FAILURE"
            /\ resp'.error \notin {None, ""}]_vars

\* C6 (as claimed, its finite part): when run() has ended for a task whose
\* computation returned normally, run() has stored SUCCESS and the envelope in
\* the task's record (after run() has ended nothing can store it any more).
C6_NormalReachesSuccess == \A t \in finished \ threw : t \in stored

(***************************************************************************)
(* Reconciliation (scan_networks)                                          *)
(***************************************************************************)
Reported(p) == {errors[p][i].filename : i \in DOMAIN errors[p]}

\* C7: at no time do two rows share a file_path, and a pass whose insert of a
\* new file loses the race against another pass's insert rolls back: the path
\* keeps exactly one row, and the step counts the file neither as added nor as
\* an error.
C7_OneRecordPerPath ==
    [][/\ \A r1, r2 \in db' : r1.file_path = r2.file_path => r1 = r2
       /\ \A p \in Procs :
            (ProcessNew(p) /\ RowsAt(db, files[p][idx[p]]) # {})
            => /\ db' = db
               /\ Cardinality(RowsAt(db', files[p][idx[p]])) = 1
               /\ added'[p] = added[p]
               /\ errors'[p] = errors[p]]_vars

\* two passes met on a new file: one added it, the other lost the insert race
\* and reported nothing for it
C7_Witness ==
    \E p \in Procs, f \in Paths :
        /\ f \in raced[p]
        /\ spc[p] = "done" /\ spc[Other(p)] = "done"
        /\ added[Other(p)] > 0
        /\ added[p] = 0 /\ errors[p] = <<>>
        /\ Cardinality(RowsAt(db, f)) = 1

C9_ChangeAppendsHistory ==
    \A p \in Procs :
        (spc[p] = "done" /\ mode[p] = "change")
        => /\ updated[p] = 1
           /\ \E r \in db :
                /\ r.id = prevRow[p].id
                /\ r.file_hash # prevRow[p].file_hash
                /\ Len(r.update_history) = Len(prevRow[p].update_history) + 1
                /\ SubSeq(r.update_history, 1, Len(prevRow[p].update_history))
                       = prevRow[p].update_history

\* C10: a finished pass has status "success", has gone through all its files,
\* and every file whose processing raised is in its error list.
C10_RaisedFilesReported ==
    \A p \in Procs :
        (spc[p] = "done" /\ status[p] = "success")
        => /\ idx[p] = Len(files[p]) + 1
           /\ raised[p] \subseteq Reported(p)
           /\ raised[p] # {} => errors[p] # <<>>

(***************************************************************************)
(* The cache decorator and cache_service (cache.py), under SpecResult      *)
(***************************************************************************)

\* C11: a wrapper call during which the Redis server was found unreachable
\* does not raise: its get gave absent, its set gave false, the computation
\* was invoked and its result returned.
C11_UnreachableDegrades ==
    (out.op = "call" /\ out.sawDown)
    => /\ ~out.raised
       /\ out.get = "absent" /\ out.set = "false"
       /\ out.invoked = 1 /\ out.value \in Results

\* C12: when the import of cache.py found no usable store (library missing,
\* no URL, unusable URL, or server unreachable), every operation is a no-op
\* from then on: get absent, set false, clear 0, ping False, nothing raised.
C12_UnavailableAtStartIsNoOp ==
    boot # "up"
    => /\ ~out.raised
       /\ out.get \in {"none", "absent"}
       /\ out.set \in {"none", "false"}
       /\ out.op = "clear" => out.n = 0
       /\ out.op = "ping" => out.value = "False"

\* C13: a wrapper call that found its key in the store returned the loaded
\* stored value and did not invoke the computation.
C13_HitSkipsComputation ==
    (out.op = "call" /\ out.found # None)
    => out.invoked = 0 /\ out.value = JsonLoads(out.found)

\* the calls with the same argument values as c
SameValues == [c \in Calls |-> {c2 \in Calls : ArgsOf(c2) = ArgsOf(c)}]

\* C14: the key a wrapper call derives is the key of every call with the same
\* argument values, however the arguments are written (positionally or by
\* keyword, keywords and dict items in any order).
C14_KeyIgnoresOrder ==
    [][\A c \in Calls :
         (rpc = "idle" /\ call' = c /\ CallStart(c))
         => \A c2 \in SameValues[c] : rkey' = KeyOf[c2]]_vars

\* a call written with keywords hit the entry under the key of the all-
\* positional call with the same values and the dict built in the other order
C14_Witness ==
    /\ out.op = "call" /\ out.found # None /\ out.invoked = 0
    /\ Len(call.args) = 0
    /\ call.kwargs[1].k = "parameters"
    /\ \E c2 \in Calls :
         /\ Len(c2.args) = Len(param_names)
         /\ c2.args[3] # call.kwargs[1].v
         /\ ArgsOf(c2) = ArgsOf(call)
         /\ rkey = KeyOf[c2]

\* C20: with the server reachable, the step that follows a miss invokes the
\* computation once, stores the serialized result under the derived key with
\* the TTL and returns the result; a stored key stays until its TTL has run
\* out or a clear, and a later call with that key finds it.
C20_MissStoresResult ==
    [][/\ \A r \in Results :
            (rpc = "func" /\ svc = "redis" /\ up /\ CallFunc(r))
            => /\ out'.invoked = 1 /\ out'.value = r /\ ~out'.raised
               /\ rkey \in DOMAIN store'
               /\ store'[rkey] = [text |-> JsonDumps(r), exp |-> rclock + StoreTtl]
       /\ \A k \in DOMAIN store :
            (store[k].exp > rclock' /\ ~ClearAll) => k \in DOMAIN store'
       /\ \A c \in Calls :
            (rpc = "idle" /\ call' = c /\ svc = "redis" /\ up
               /\ KeyOf[c] \in DOMAIN store /\ CallStart(c))
            => out'.found = store[KeyOf[c]].text]_vars

\* a result was stored on a miss, and a second call, a second later and
\* within the TTL, found it
C20_Witness ==
    /\ out.op = "call" /\ out.get = "value" /\ out.invoked = 0
    /\ out.value \in Results
    /\ rcount = 2 /\ rclock > 0
    /\ rkey \in DOMAIN store /\ store[rkey].exp > rclock

(***************************************************************************)
(* The task backend of the routes, under SpecBackend                       *)
(***************************************************************************)

\* C15: when celery cannot be imported or no broker URL is configured, the
\* process does not crash at startup, and a request that reaches queue_task
\* gets a task id for a task that the local worker pool has, and a poll
\* reports a state.
C15_FallsBackToLocal ==
    (~celeryLib \/ brokerUrl = "")
    => /\ bpc # "crashed"
       /\ bout.op = "queue" => bout.task_id # 0 /\ bout.executor = "local"
       /\ bout.op = "poll" => bout.state # None

(***************************************************************************)
(* NetworkCache under concurrent callers, under SpecThreads                *)
(***************************************************************************)

\* C16: every call takes effect atomically. While a thread is inside a
\* method no other thread changes the contents, the order or the counters,
\* and when the call returns they, and the value returned, are those of the
\* whole call run alone on the state it found when it took the lock; so any
\* interleaving of calls equals their sequential execution in the order in
\* which they took the lock.
C16_CallsAreAtomic ==
    [][/\ \A t \in Threads :
            Release(t)
            => [cache |-> cache, hits |-> hits, misses |-> misses, val |-> tval]
                 = SeqEffect(tcall[t], snap.cache, snap.hits, snap.misses, tnow)
       /\ (lock # 0 /\ <<cache', hits', misses'>> # <<cache, hits, misses>>)
            => tpc'[lock] # tpc[lock]
       /\ \A t \in Threads : (tpc[t] # "idle" /\ tpc'[t] # "idle") => lock' = t]_vars

\* the second thread is about to return from a get that hit, in a full cache,
\* with the clock having moved while it was inside the method
C16_Witness ==
    /\ lock = 2 /\ tpc[2] = "release"
    /\ tcall[2].name = "get" /\ tval.value = "n1"
    /\ Len(cache) = max_size
    /\ hits = snap.hits + 1
    /\ now > tnow /\ tnow >= 0

(***************************************************************************)
(* More claims about the task queue, under SpecTasks                       *)
(***************************************************************************)

\* C17: a status response for an id that has no record (never submitted, or
\* removed since) is a not-found result: it does not carry one of the states
\* of a live task.
C17_UnknownIdNotFound ==
    (resp.task_id # 0 /\ resp.task_id \notin DOMAIN tasks)
    => resp.state \notin {"PENDING", "PROGRESS", "SUCCESS", "FAILURE"}

\* C19: _execute_task marks the task PROGRESS before the computation, runs
\* the computation once, and hands back an envelope whether the computation
\* returns or raises: status "success" with the task id, the time, the raw
\* result and the kwargs, or status "error" with the task id and the message.
C19_EnvelopeContract ==
    [][/\ (wpc # "func" /\ wpc' = "func")
            => /\ wpc = "update_state"
               /\ wtid' = wtid
               /\ wtid \notin finished
               /\ wtid \in DOMAIN tasks => tasks'[wtid].state = "PROGRESS"
       /\ (wpc = "func" /\ wpc' # "func") => wpc' = "store" /\ wtid' = wtid
       /\ FuncReturns
            => /\ wres'.status = "success"
               /\ wres'.task_id = wtid
               /\ wres'.generated_at = clock
               /\ wres'.data = <<"data", job[wtid]>>
               /\ wres'.request = job[wtid]
               /\ wres'.error = None
       /\ \A msg \in Msgs : FuncRaises(msg)
            => /\ wres'.status = "error"
               /\ wres'.task_id = wtid
               /\ wres'.error = msg
               /\ wres'.data = None]_vars

\* one task has its success envelope stored, and the computation of the next
\* has raised after the task was marked PROGRESS: the wrapper holds the error
\* envelope it is about to return
C19_Witness ==
    /\ wpc = "store"
    /\ wtid \in threw
    /\ wtid \in DOMAIN tasks
    /\ tasks[wtid].state = "PROGRESS"
    /\ wres.status = "error"
    /\ wres.error = "boom"
    /\ \E t \in stored \cap DOMAIN tasks :
          t \notin threw /\ tasks[t].result.status = "success"

\* C23: once a running task has reported a message, current and total, a
\* status read made while it runs gives state PROGRESS with the message, the
\* current and the total last reported.
C23_ProgressVisible ==
    [][\A t \in Tids :
         (GetStatus(t) /\ wpc = "func" /\ wtid = t /\ t \in DOMAIN tasks
            /\ tasks[t].meta \in Reports)
         => /\ resp'.state = "PROGRESS"
            /\ resp'.status = tasks[t].meta.status
            /\ resp'.current = tasks[t].meta.current
            /\ resp'.total = tasks[t].meta.total]_vars

\* C24: a submission at time clock removes every record created before
\* clock - RETENTION and keeps every other record as it was, the new one
\* included.
C24_SweepOnSubmit ==
    [][\A kw \in Params :
         (nextTid' = nextTid + 1 /\ Submit(kw))
         => /\ nextTid' \in DOMAIN tasks'
            /\ tasks'[nextTid'] = NewRecord(clock)
            /\ \A k \in DOMAIN tasks :
                 IF tasks[k].created_at < clock - RETENTION
                 THEN k \notin DOMAIN tasks'
                 ELSE k \in DOMAIN tasks' /\ tasks'[k] = tasks[k]]_vars

\* a submission has just removed the record of the first task, which was
\* older than the retention time, and kept the record it created
C24_Witness ==
    /\ nextTid = 2
    /\ DOMAIN tasks = {2}
    /\ tasks[2] = NewRecord(clock)
    /\ clock > RETENTION
    /\ queue # <<>> /\ queue[Len(queue)] = 2

\* C25: at most one task is past the start of its body and not finished, and
\* every other task that was submitted and has not finished is waiting in the
\* pool's queue and reads as PENDING.
C25_OneBodyAtATime ==
    /\ Cardinality({t \in DOMAIN tasks :
                      tasks[t].state = "PROGRESS" /\ t \notin finished}) <= 1
    /\ \A t \in 1..nextTid :
         (t \notin finished /\ t # wtid)
         => StateOf(tasks, t) = "PENDING" /\ t \in Range(queue)

\* one task is in its body while another, submitted after it, waits
C25_Witness ==
    /\ wpc = "func"
    /\ wtid \in DOMAIN tasks /\ tasks[wtid].state = "PROGRESS"
    /\ queue # <<>>
    /\ queue[1] \in DOMAIN tasks /\ tasks[queue[1]].state = "PENDING"

(***************************************************************************)
(* Claims about the statistics and plot routes, checked under SpecApi.     *)
(***************************************************************************)

Disallowed(r) ==
    \/ r.statistic \notin ALLOWED_STATISTICS
    \/ r.plot_type # None /\ r.plot_type \notin ALLOWED_CHART_TYPES

\* C18: every queued task carries a statistic of ALLOWED_STATISTICS and, for
\* a plot, a plot type of ALLOWED_CHART_TYPES; a request with a value outside
\* them is answered 422 by the step that receives it, which queues nothing.
C18_DisallowedNeverQueued ==
    /\ [](\A i \in 1..Len(queued) :
            /\ queued[i].statistic \in ALLOWED_STATISTICS
            /\ queued[i].task = "get_plot_task"
                 => queued[i].plot_type \in ALLOWED_CHART_TYPES)
    /\ [][\A r \in StatisticsRequests \cup PlotRequests :
            ((get_statistics(r) \/ generate_plot(r)) /\ Disallowed(r))
            => areply'.code = 422 /\ queued' = queued]_vars

\* a task is queued and the request after it, whose ids would resolve, was
\* turned down for its statistic
C18_Witness ==
    /\ Len(queued) = 1
    /\ areq.statistic \notin ALLOWED_STATISTICS
    /\ validate_network_ids(areq.network_ids)
    /\ Found(areq.network_ids)
    /\ areply.code = 422

(***************************************************************************)
(* Claims about the clear operations of the store, under SpecAdmin.        *)
(***************************************************************************)

\* the map results the wrapper stored for the network with id n
MapResultsOf(n, ks) ==
    {k \in ks : k.prefix = "map_data" /\ k.hash.of[1] = PathOf(n)}

\* C21: when clear_network_cache(n) returns, the store holds no map result
\* stored for network n and no plot result, and the number returned is the
\* number of keys removed.
C21_NetworkClearRemovesItsResults ==
    [][\A n \in NetworkIds : clear_network_cache(n)
          => /\ MapResultsOf(n, rkeys') = {}
             /\ \A k \in rkeys' : k.prefix # "plot"
             /\ aop'.n = Cardinality(rkeys \ rkeys')]_vars

(***************************************************************************)
(* Claims about the component locks, under SpecLocks.                      *)
(***************************************************************************)

\* C26: no thread holds the cache lock and the task-table lock together, and
\* a thread that waits for a lock waits for a thread that does not wait
\* itself, so the threads are never stuck on each other.
C26_NoNestedLocks ==
    /\ \A t \in LockThreads :
         Cardinality({l \in LockNames : holder[l] = t}) <= 1
    /\ \A t \in LockThreads :
         Waits(t) => ~Waits(holder[NextOp(t).lock])
    /\ \A l \in LockNames :
         holder[l] # 0 => InCall(holder[l]) /\ NextOp(holder[l]) = Rel(l)

\* the pool's thread is inside the task-table lock, a request thread is
\* inside the cache lock, and the other request thread waits for the table
C26_Witness ==
    /\ holder["tasks"] = PoolThread
    /\ holder["cache"] \in RequestThreads
    /\ \E t \in RequestThreads : Waits(t) /\ NextOp(t).lock = "tasks"

(***************************************************************************)
(* The transaction of each file, under SpecScanFaults                      *)
(***************************************************************************)

\* the pass has just looked up its next file
LookedUp(p) == spc[p] = "loop" /\ spc'[p] = "process" /\ Query(p)

\* the pass has just processed its file
Processed(p) == spc[p] = "process" /\ spc'[p] # "process"

\* the lookup starts with nothing uncommitted in the Session, and what the
\* processing of the file commits changes rows of that file only and leaves
\* nothing uncommitted
OneTransactionPerFile(p) ==
    /\ LookedUp(p) => session[p] = {}
    /\ Processed(p)
       => /\ session'[p] = {}
          /\ \A r \in db' \ db : r.file_path = files[p][idx[p]]

\* the row the lookup returned is locked by the pass and by no other
LockedByLookup(p) ==
    (LookedUp(p) /\ existing'[p] # NoRow)
    => /\ existing'[p].id \in locks'[p]
       /\ existing'[p].id \notin locks'[Other(p)]

\* C27: each lookup by path locks the row it returns for the pass alone and
\* starts with no uncommitted change in the Session; every change made for a
\* file is committed or rolled back by the step that processes the file, and
\* that commit writes rows of that file only.
C27_LookupLockedPerFileTransaction ==
    [][\A p \in Procs : LockedByLookup(p) /\ OneTransactionPerFile(p)]_vars

(***************************************************************************)
(* A record older than the SVG column, under SpecLegacy                    *)
(***************************************************************************)

\* the pass is about to process a file whose row, as loaded, has the file's
\* hash and no SVG
SvgOnly(p) ==
    /\ spc[p] = "process"
    /\ existing[p] # NoRow
    /\ disk[files[p][idx[p]]] # NoFile
    /\ Loads(disk[files[p][idx[p]]])
    /\ existing[p].file_hash = HashOf(disk[files[p][idx[p]]])
    /\ existing[p].topology_svg = None

\* C28: processing a file whose row has the file's hash and no SVG writes the
\* generated SVG into that row and nothing else: every row keeps its
\* file_hash, file_size, info and update_history, no row is added or removed.
C28_OnlySvgRegenerated ==
    [][\A p \in Procs :
         (SvgOnly(p) /\ ProcessExisting(p))
         => /\ {r.id : r \in db'} = {r.id : r \in db}
            /\ \A r \in db : \E r2 \in db' :
                 /\ r2.id = r.id
                 /\ \A f \in DOMAIN r \ {"topology_svg"} : r2[f] = r[f]
                 /\ r2.topology_svg = IF r.id = existing[p].id
                                      THEN SvgOf(disk[files[p][idx[p]]])
                                      ELSE r.topology_svg]_vars

\* the old row of a.nc has got its SVG and is otherwise as it was
C28_Witness ==
    /\ [LegacyRow EXCEPT !.topology_svg = SvgOf("v1")] \in db
    /\ SvgOf("v1") # None
    /\ \E p \in Procs : spc[p] = "done" /\ updated[p] = 0

(***************************************************************************)
(* update_history, under SpecScan                                          *)
(***************************************************************************)

\* the row of db with the id of r2, or NoRow
Before(r2) ==
    IF \E r \in db : r.id = r2.id
    THEN CHOOSE r \in db : r.id = r2.id
    ELSE NoRow

IsPrefix(h1, h2) == Len(h1) <= Len(h2) /\ SubSeq(h2, 1, Len(h1)) = h1

\* a new row starts with one entry and a row's earlier history is a prefix of
\* its later one
HistoryOnlyAppended ==
    \A r2 \in db' :
        IF Before(r2) = NoRow
        THEN Len(r2.update_history) = 1
        ELSE IsPrefix(Before(r2).update_history, r2.update_history)

\* C29: in every step a new row has a history of one entry, the history of a
\* row that was there is extended at its end only, by exactly one entry if the
\* step changed the row's file_hash and by none if it did not.
C29_HistoryGrowsWithHash ==
    [][/\ HistoryOnlyAppended
       /\ \A r2 \in db' :
            Before(r2) # NoRow
            => Len(r2.update_history) =
                  Len(Before(r2).update_history)
                  + (IF r2.file_hash # Before(r2).file_hash THEN 1 ELSE 0)]_vars

(***************************************************************************)
(* A failure after the record was changed, under SpecScanFaults            *)
(***************************************************************************)

\* processing the file of an existing row has just raised after the row
\* object was changed
RaisedLate(p) ==
    /\ spc[p] = "process"
    /\ existing[p] # NoRow
    /\ raised'[p] # raised[p]
    /\ \E msg \in ScanMsgs : ProcessRaisesLate(p, msg)

\* the changes are gone: the table is as it was and the Session holds nothing
\* that a later commit could write
ChangesRolledBack(p) == db' = db /\ session'[p] = {}

\* C30: when the processing of an existing row's file raises after the row
\* object was changed, the table is left as it was, nothing of the change
\* stays in the Session for a later commit, and the file is in the error
\* list of the pass.
C30_LateFailureRolledBackAndReported ==
    [][\A p \in Procs :
         RaisedLate(p)
         => /\ ChangesRolledBack(p)
            /\ \E i \in DOMAIN errors'[p] :
                 errors'[p][i].filename = files[p][idx[p]]]_vars

(***************************************************************************)
(* Terminal states and the retention sweep, under SpecTasks                *)
(***************************************************************************)
Terminal == {"SUCCESS", "FAILURE"}

\* C33: a task id for which a status read answers SUCCESS or FAILURE is,
\* after every step (submissions included), still an id for which a status
\* read answers SUCCESS or FAILURE.
C33_TerminalStaysTerminal ==
    [][\A t \in Tids :
         StatusResponse(tasks, t).state \in Terminal
         => StatusResponse(tasks', t).state \in Terminal]_vars

\* C34: a submission's sweep leaves every record that is PENDING or PROGRESS
\* in the table, and no run() ends by raising for want of its record.
C34_SweepSparesUnfinished ==
    [][/\ \A t \in DOMAIN tasks :
            tasks[t].state \in {"PENDING", "PROGRESS"} => t \in DOMAIN tasks'
       /\ escaped' = escaped]_vars

(***************************************************************************)
(* A computation that raises, under SpecResultFaults                       *)
(***************************************************************************)

C38_MissingFilesRecordKept ==
    [][\A r \in db :
         /\ \E r2 \in db' : r2.id = r.id
         /\ disk[r.file_path] = NoFile => r \in db']_vars

\* a row's file was deleted, a whole pass has since run over the directory and
\* processed another file's row, and the row is still as it was inserted
C38_Witness ==
    \E r \in db, p \in Procs :
        /\ disk[r.file_path] = NoFile
        /\ r = NewRow(r.id, r.file_path, "v1", 1)
        /\ lastFull = writes /\ writes > 0
        /\ spc[p] = "done" /\ status[p] = "success"
        /\ Len(files[p]) = 1 /\ files[p][1] # r.file_path
        /\ Cardinality(db) = 2

(***************************************************************************)
(* The row locks of a pass, under SpecScan                                 *)
(***************************************************************************)

\* the pass is at a lookup whose row the other pass has locked
WaitsForRow(p) ==
    /\ forUpdate
    /\ spc[p] = "loop"
    /\ \E r \in RowsAt(db, files[p][idx[p]]) : r.id \in locks[Other(p)]

\* C35: a pass never holds the lock of more than one row, holds none when it
\* comes to the lookup of its next file, and the two passes never wait for
\* each other's rows.
C35_OneRowLockAtATime ==
    /\ \A p \in Procs :
         /\ Cardinality(locks[p]) <= 1
         /\ spc[p] = "loop" => locks[p] = {}
    /\ ~(\A p \in Procs : WaitsForRow(p))

(***************************************************************************)
(* The reconciler and the Keyed Object Cache, under SpecLoads              *)
(***************************************************************************)

\* the constructor that who started returns in this step
Constructed(who) == lwho = who /\ lpc # "idle" /\ lpc' = "idle"

\* what the claim says of a load through the cache: a warm entry is the
\* network of the service and nothing is parsed; after a cold load the cache
\* holds the parsed object under the file's key
ThroughCache ==
    IF Warm(cache, ScannedKey, now) /\ lpc # "put"
    THEN ln' = [n |-> cache[IndexOf(cache, ScannedKey)].value, via |-> "cache"]
    ELSE /\ ln'.via = "file"
         /\ Has(cache', ScannedKey)
         /\ cache'[IndexOf(cache', ScannedKey)].value = ln'.n

\* C31: the constructor the reconciler runs for a file takes a warm,
\* unexpired cache entry of the file as its network, and after parsing the
\* file it leaves the parsed object in the cache.
C31_ReconcilerLoadsThroughCache ==
    [][Constructed("reconciler") => ThroughCache]_vars

\* C36: when the reconciler has recorded a changed hash for the file, the
\* constructor a request runs with use_cache=True does not return an object
\* parsed from bytes older than the recorded ones.
C36_CachedLoadNotStale ==
    [][(Constructed("request") /\ rechanged)
         => \A v \in 1..MaxVersions :
              recorded = FileHash(v) => ln'.n.from >= v]_vars

(***************************************************************************)
(* Access to networks, under SpecAccess                                    *)
(***************************************************************************)

\* the requester owns the network, or it is public, or it has no owner
Permitted(n, u) ==
    /\ owners[n].present
    /\ \/ u # None /\ owners[n].user_id = u
       \/ owners[n].is_public
       \/ owners[n].user_id = None

\* C32: with authentication enabled, every network an answer returns is one
\* the requester owns, a public one or one without owner; a request that names
\* any other network is refused (404 from the lookup, or 401 before it for a
\* route that requires a user), returns no network and queues no task.
C32_OnlyPermittedNetworks ==
    (enable_auth /\ aout.op # "none")
    => /\ \A n \in aout.networks : Permitted(n, aout.user)
       /\ (\E i \in 1..Len(aout.ids) : ~Permitted(aout.ids[i], aout.user))
          => /\ aout.code \in {401, 404}
             /\ aout.code = 401 => aout.user = None
             /\ aout.networks = {}
             /\ ~aout.queued

====
